---- MODULE Spec2Model ----
(***************************************************************************)
(* PioneerGUI: the path-addressed JSON utilities (src/lib/utils.ts), the   *)
(* recursive JSON editor (JsonEditor.svelte) and the host page             *)
(* (App.svelte) that owns one ConfigState per workflow tab.                *)
(*                                                                         *)
(* Representation.  A JavaScript string is a sequence of one-character     *)
(* strings, so that join('.') and split('.') are modelled by what they do. *)
(* A JsonValue is a tagged record; an object is the sequence of its        *)
(* entries in JavaScript's own-property order.  Undef stands for the       *)
(* JavaScript value undefined (also an array hole read back).  Array       *)
(* indices in paths are natural numbers.                                   *)
(***************************************************************************)
EXTENDS Integers, Sequences, FiniteSets, TLC

\* ------------------------------------------------------------------------
\* Bounds of the checked universe
\* ------------------------------------------------------------------------
MaxArr == 2
MaxPathLen == 2
MaxPending == 1
MaxGestures == 4
MaxLines == 3
MaxOps == 3
MaxEvents == 3

\* ------------------------------------------------------------------------
\* JsonValue (src/lib/types.ts:1) and JsonPath (utils.ts:3)
\* ------------------------------------------------------------------------
Null == [k |-> "null"]
Undef == [k |-> "undef"]
Bool(b) == [k |-> "bool", b |-> b]
Num(n) == [k |-> "num", n |-> n]
Str(s) == [k |-> "str", s |-> s]
Arr(a) == [k |-> "arr", a |-> a]
Obj(m) == [k |-> "map", m |-> m]

IsPrimitive(val) == val.k \in {"null", "bool", "num", "str"}
IsArray(val) == val.k = "arr"
IsObject(val) == val.k = "map"

\* a path segment: a string key or a number index
K(s) == [key |-> s]
I(n) == [idx |-> n]
IsStringSeg(seg) == DOMAIN seg = {"key"}
IsNumberSeg(seg) == DOMAIN seg = {"idx"}

\* ------------------------------------------------------------------------
\* JavaScript primitives used by the utilities
\* ------------------------------------------------------------------------
Digit(n) == CASE n = 0 -> "0" [] n = 1 -> "1" [] n = 2 -> "2" [] n = 3 -> "3"
              [] n = 4 -> "4" [] n = 5 -> "5" [] n = 6 -> "6" [] n = 7 -> "7"
              [] n = 8 -> "8" [] n = 9 -> "9"

RECURSIVE NumToString(_)
\* Number.prototype.toString / String(n) for a natural number
NumToString(n) == IF n < 10 THEN <<Digit(n)>>
                  ELSE NumToString(n \div 10) \o <<Digit(n % 10)>>

\* the property name a path segment denotes in obj[seg]
PropName(seg) == IF IsNumberSeg(seg) THEN NumToString(seg.idx) ELSE seg.key

\* property names that are canonical array indices sort first in an object
IndexNames == {NumToString(n) : n \in 0..(MaxArr + 1)}
IsIndexName(name) == name \in IndexNames
IndexOfName(name) == CHOOSE n \in 0..(MaxArr + 1) : NumToString(n) = name

\* arr[i] for a 0-based index: undefined beyond the end
ArrAt(a, i) == IF i < Len(a) THEN a[i + 1] ELSE Undef

\* arr[i] = x on a copy: an index beyond the end extends the array with holes
ArrPut(a, i, x) ==
  IF i < Len(a) THEN [a EXCEPT ![i + 1] = x]
  ELSE a \o [j \in 1..(i - Len(a)) |-> Undef] \o <<x>>

HasKey(m, name) == \E j \in 1..Len(m) : m[j].key = name

\* obj[name]: undefined for a missing own property
ObjGet(m, name) ==
  IF HasKey(m, name) THEN m[CHOOSE j \in 1..Len(m) : m[j].key = name].val
  ELSE Undef

\* where a new own property is enumerated: index names ascending first,
\* other names in insertion order
InsertPos(m, name) ==
  IF IsIndexName(name)
  THEN Cardinality({j \in 1..Len(m) :
         IsIndexName(m[j].key) /\ IndexOfName(m[j].key) < IndexOfName(name)}) + 1
  ELSE Len(m) + 1

\* obj[name] = x on a copy: an existing property keeps its place
ObjPut(m, name, x) ==
  IF HasKey(m, name)
  THEN [j \in 1..Len(m) |-> IF m[j].key = name THEN [key |-> name, val |-> x] ELSE m[j]]
  ELSE LET pos == InsertPos(m, name) IN
       SubSeq(m, 1, pos - 1) \o <<[key |-> name, val |-> x]>> \o SubSeq(m, pos, Len(m))

\* ------------------------------------------------------------------------
\* utils.ts
\* ------------------------------------------------------------------------
getStep(acc, key) ==
  IF acc = Undef THEN Undef
  ELSE IF IsPrimitive(acc) THEN acc
  ELSE IF IsArray(acc) /\ IsNumberSeg(key) THEN ArrAt(acc.a, key.idx)
  ELSE IF ~IsArray(acc) /\ IsStringSeg(key) THEN ObjGet(acc.m, key.key)
  ELSE Undef

RECURSIVE getValue(_, _)
getValue(root, path) ==
  IF Len(path) = 0 THEN root
  ELSE getValue(getStep(root, Head(path)), Tail(path))

RECURSIVE setValueExistingOnly(_, _, _)
\* setValue that assigns only to properties the object already has
setValueExistingOnly(root, path, value) ==
  IF Len(path) = 0 THEN value
  ELSE LET head == Head(path)
           rest == Tail(path)
       IN  IF IsArray(root)
           THEN IF ~IsNumberSeg(head) THEN root
                ELSE Arr(ArrPut(root.a, head.idx,
                                setValueExistingOnly(ArrAt(root.a, head.idx), rest, value)))
           ELSE IF ~IsObject(root) THEN root
           ELSE IF ~HasKey(root.m, PropName(head)) THEN root
           ELSE Obj(ObjPut(root.m, PropName(head),
                           setValueExistingOnly(ObjGet(root.m, PropName(head)), rest, value)))

RECURSIVE setValueEmptyClone(_, _, _)
\* setValue whose object clone starts empty instead of spreading root
setValueEmptyClone(root, path, value) ==
  IF Len(path) = 0 THEN value
  ELSE LET head == Head(path)
           rest == Tail(path)
       IN  IF IsArray(root)
           THEN IF ~IsNumberSeg(head) THEN root
                ELSE Arr(ArrPut(root.a, head.idx,
                                setValueEmptyClone(ArrAt(root.a, head.idx), rest, value)))
           ELSE IF ~IsObject(root) THEN root
           ELSE Obj(<<[key |-> PropName(head),
                       val |-> setValueEmptyClone(ObjGet(root.m, PropName(head)), rest, value)]>>)

RECURSIVE setValue(_, _, _)
setValue(root, path, value) ==
  IF Len(path) = 0 THEN value
  ELSE LET head == Head(path)
           rest == Tail(path)
       IN  IF IsArray(root)
           THEN IF ~IsNumberSeg(head) THEN root
                ELSE Arr(ArrPut(root.a, head.idx,
                                setValue(ArrAt(root.a, head.idx), rest, value)))
           ELSE IF ~IsObject(root) THEN root
           ELSE IF Len(rest) = 0
                THEN Obj(ObjPut(root.m, PropName(head), value))
                ELSE Obj(ObjPut(root.m, PropName(head),
                                setValue(ObjGet(root.m, PropName(head)), rest, value)))

RECURSIVE AssignAll(_, _)
\* removal that leaves a hole, as delete arr[i] does
spliceHole(a, i) == IF i < Len(a) THEN [a EXCEPT ![i + 1] = Undef] ELSE a

\* arr.splice(i, 1) on a copy: nothing to remove beyond the end
splice(a, i) ==
  IF i < Len(a) THEN SubSeq(a, 1, i) \o SubSeq(a, i + 2, Len(a)) ELSE a

\* delete obj[name] on a copy: the other properties keep their order
deleteProp(m, name) ==
  IF HasKey(m, name)
  THEN LET pos == CHOOSE j \in 1..Len(m) : m[j].key = name IN
       SubSeq(m, 1, pos - 1) \o SubSeq(m, pos + 1, Len(m))
  ELSE m

RECURSIVE deleteKey(_, _)
deleteKey(root, path) ==
  IF Len(path) = 0 THEN root
  ELSE LET head == Head(path)
           rest == Tail(path)
       IN  IF IsArray(root)
           THEN IF ~IsNumberSeg(head) THEN root
                ELSE IF Len(rest) = 0 THEN Arr(splice(root.a, head.idx))
                ELSE Arr(ArrPut(root.a, head.idx,
                                deleteKey(ArrAt(root.a, head.idx), rest)))
           ELSE IF ~IsObject(root) THEN root
           ELSE IF Len(rest) = 0 THEN Obj(deleteProp(root.m, PropName(head)))
           ELSE Obj(ObjPut(root.m, PropName(head),
                           deleteKey(ObjGet(root.m, PropName(head)), rest)))

\* {...result, ...entries}
AssignAll(result, entries) ==
  IF Len(entries) = 0 THEN result
  ELSE AssignAll(ObjPut(result, Head(entries).key, Head(entries).val), Tail(entries))

\* deepMerge that merges the top level only: {...base, ...override}
deepMergeShallow(base, override) ==
  IF ~IsObject(override) THEN override
  ELSE IF ~IsObject(base) THEN Obj(override.m)
  ELSE Obj(AssignAll(base.m, override.m))

RECURSIVE mergeEntries(_, _, _)
RECURSIVE deepMerge(_, _)
\* the for..of loop of deepMerge over Object.entries(override), from entry j
mergeEntries(result, base, entries) ==
  IF Len(entries) = 0 THEN result
  ELSE LET e == Head(entries) IN
       mergeEntries(ObjPut(result, e.key, deepMerge(ObjGet(base, e.key), e.val)),
                    base, Tail(entries))

\* deepMerge whose result starts empty instead of spreading base
deepMergeFromEmpty(base, override) ==
  IF ~IsObject(override) THEN override
  ELSE IF ~IsObject(base) THEN Obj(override.m)
  ELSE Obj(mergeEntries(<<>>, base.m, override.m))

\* deepMerge that appends an override array to a base array
deepMergeConcat(base, override) ==
  IF IsArray(override) /\ IsArray(base) THEN Arr(base.a \o override.a)
  ELSE IF ~IsObject(override) THEN override
  ELSE IF ~IsObject(base) THEN Obj(override.m)
  ELSE Obj(mergeEntries(base.m, base.m, override.m))

deepMerge(base, override) ==
  IF ~IsObject(override) THEN override
  ELSE IF ~IsObject(base) THEN Obj(override.m)
  ELSE Obj(mergeEntries(base.m, base.m, override.m))

\* ------------------------------------------------------------------------
\* utils.ts setValue on objects with identity.  The heap maps a node id to an
\* array or object node whose children are references: a primitive value or
\* the id of another node.  A new array or object literal allocates a node.
\* ------------------------------------------------------------------------
Ptr(id) == [ref |-> id]
IsPtr(r) == DOMAIN r = {"ref"}
IsArrayRef(heap, r) == IsPtr(r) /\ heap[r.ref].k = "arr"
IsObjectRef(heap, r) == IsPtr(r) /\ heap[r.ref].k = "map"

RECURSIVE setValueInPlace(_, _, _, _)
\* setValue that assigns into root itself instead of into a copy
setValueInPlace(heap, root, path, value) ==
  IF Len(path) = 0 THEN [heap |-> heap, ref |-> value]
  ELSE LET head == Head(path)
           rest == Tail(path)
       IN  IF IsArrayRef(heap, root)
           THEN IF ~IsNumberSeg(head) THEN [heap |-> heap, ref |-> root]
                ELSE LET sub == setValueInPlace(heap, ArrAt(heap[root.ref].a, head.idx),
                                                rest, value)
                     IN  [heap |-> [sub.heap EXCEPT ![root.ref] =
                                      Arr(ArrPut(sub.heap[root.ref].a, head.idx, sub.ref))],
                          ref |-> root]
           ELSE IF ~IsObjectRef(heap, root) THEN [heap |-> heap, ref |-> root]
           ELSE LET sub == setValueInPlace(heap, ObjGet(heap[root.ref].m, PropName(head)),
                                           rest, value)
                IN  [heap |-> [sub.heap EXCEPT ![root.ref] =
                                 Obj(ObjPut(sub.heap[root.ref].m, PropName(head), sub.ref))],
                     ref |-> root]

RECURSIVE setValueH(_, _, _, _)
setValueH(heap, root, path, value) ==
  IF Len(path) = 0 THEN [heap |-> heap, ref |-> value]
  ELSE LET head == Head(path)
           rest == Tail(path)
           id == Len(heap) + 1
       IN  IF IsArrayRef(heap, root)
           THEN IF ~IsNumberSeg(head) THEN [heap |-> heap, ref |-> root]
                ELSE LET clone == heap[root.ref].a
                         sub == setValueH(Append(heap, Arr(clone)),
                                          ArrAt(clone, head.idx), rest, value)
                     IN  [heap |-> [sub.heap EXCEPT ![id] = Arr(ArrPut(clone, head.idx, sub.ref))],
                          ref |-> Ptr(id)]
           ELSE IF ~IsObjectRef(heap, root) THEN [heap |-> heap, ref |-> root]
           ELSE LET clone == heap[root.ref].m
                    sub == IF Len(rest) = 0
                           THEN [heap |-> Append(heap, Obj(clone)), ref |-> value]
                           ELSE setValueH(Append(heap, Obj(clone)),
                                          ObjGet(clone, PropName(head)), rest, value)
                IN  [heap |-> [sub.heap EXCEPT ![id] = Obj(ObjPut(clone, PropName(head), sub.ref))],
                     ref |-> Ptr(id)]

RECURSIVE deleteKeyH(_, _, _)
\* deleteKey on the heap: the clones are new nodes
deleteKeyH(heap, root, path) ==
  IF Len(path) = 0 THEN [heap |-> heap, ref |-> root]
  ELSE LET head == Head(path)
           rest == Tail(path)
           id == Len(heap) + 1
       IN  IF IsArrayRef(heap, root)
           THEN IF ~IsNumberSeg(head) THEN [heap |-> heap, ref |-> root]
                ELSE LET clone == heap[root.ref].a IN
                     IF Len(rest) = 0
                     THEN [heap |-> Append(heap, Arr(splice(clone, head.idx))),
                           ref |-> Ptr(id)]
                     ELSE LET sub == deleteKeyH(Append(heap, Arr(clone)),
                                                ArrAt(clone, head.idx), rest)
                          IN  [heap |-> [sub.heap EXCEPT ![id] =
                                           Arr(ArrPut(clone, head.idx, sub.ref))],
                               ref |-> Ptr(id)]
           ELSE IF ~IsObjectRef(heap, root) THEN [heap |-> heap, ref |-> root]
           ELSE LET clone == heap[root.ref].m IN
                IF Len(rest) = 0
                THEN [heap |-> Append(heap, Obj(deleteProp(clone, PropName(head)))),
                      ref |-> Ptr(id)]
                ELSE LET sub == deleteKeyH(Append(heap, Obj(clone)),
                                           ObjGet(clone, PropName(head)), rest)
                     IN  [heap |-> [sub.heap EXCEPT ![id] =
                                      Obj(ObjPut(clone, PropName(head), sub.ref))],
                          ref |-> Ptr(id)]

RECURSIVE mergeEntriesH(_, _, _, _)
RECURSIVE deepMergeH(_, _, _)
\* the for..of loop of deepMerge assigning into the result node id
mergeEntriesH(heap, id, base, entries) ==
  IF Len(entries) = 0 THEN heap
  ELSE LET e == Head(entries)
           sub == deepMergeH(heap, ObjGet(base, e.key), e.val)
       IN  mergeEntriesH([sub.heap EXCEPT ![id] = Obj(ObjPut(sub.heap[id].m, e.key, sub.ref))],
                         id, base, Tail(entries))

\* deepMerge on the heap: override itself is returned when it is no mapping;
\* the spreads of override and of base are new nodes holding the same children
deepMergeH(heap, base, override) ==
  LET id == Len(heap) + 1 IN
  IF ~IsObjectRef(heap, override) THEN [heap |-> heap, ref |-> override]
  ELSE IF ~IsObjectRef(heap, base)
  THEN [heap |-> Append(heap, Obj(heap[override.ref].m)), ref |-> Ptr(id)]
  ELSE [heap |-> mergeEntriesH(Append(heap, Obj(heap[base.ref].m)), id,
                               heap[base.ref].m, heap[override.ref].m),
        ref |-> Ptr(id)]

RECURSIVE Store(_, _)
RECURSIVE StoreAll(_, _)
\* the objects JSON.parse builds for a value: one node per array and object
Store(heap, value) ==
  IF IsArray(value)
  THEN LET kids == StoreAll(heap, value.a) IN
       [heap |-> Append(kids.heap, Arr(kids.refs)), ref |-> Ptr(Len(kids.heap) + 1)]
  ELSE IF IsObject(value)
  THEN LET kids == StoreAll(heap, [j \in 1..Len(value.m) |-> value.m[j].val]) IN
       [heap |-> Append(kids.heap,
                        Obj([j \in 1..Len(value.m) |->
                               [key |-> value.m[j].key, val |-> kids.refs[j]]])),
        ref |-> Ptr(Len(kids.heap) + 1)]
  ELSE [heap |-> heap, ref |-> value]

StoreAll(heap, values) ==
  IF Len(values) = 0 THEN [heap |-> heap, refs |-> <<>>]
  ELSE LET first == Store(heap, Head(values))
           others == StoreAll(first.heap, Tail(values))
       IN  [heap |-> others.heap, refs |-> <<first.ref>> \o others.refs]

RECURSIVE Fetch(_, _)
\* the value a reference denotes
Fetch(heap, r) ==
  IF ~IsPtr(r) THEN r
  ELSE IF heap[r.ref].k = "arr"
  THEN Arr([j \in 1..Len(heap[r.ref].a) |-> Fetch(heap, heap[r.ref].a[j])])
  ELSE Obj([j \in 1..Len(heap[r.ref].m) |->
              [key |-> heap[r.ref].m[j].key, val |-> Fetch(heap, heap[r.ref].m[j].val)]])

\* ------------------------------------------------------------------------
\* The checked universe of JSON values and paths
\* ------------------------------------------------------------------------
KeyA == <<"a">>
KeyB == <<"b">>
Keys == {KeyA, KeyB}

SeqsUpTo(S, n) == UNION {[1..len -> S] : len \in 0..n}

DistinctKeys(m) == \A i, j \in 1..Len(m) : m[i].key = m[j].key => i = j

ArraysOver(S) == {Arr(a) : a \in SeqsUpTo(S, MaxArr)}
ObjectsOver(S) ==
  {Obj(m) : m \in {e \in SeqsUpTo([key : Keys, val : S], Cardinality(Keys)) : DistinctKeys(e)}}

Scalars == {Null, Bool(TRUE), Num(1), Str(<<"s">>)}
FlatLeaves == {Null, Num(1)}
FlatValues == Scalars \cup ArraysOver(FlatLeaves) \cup ObjectsOver(FlatLeaves)
InnerValues == {Num(1), Str(<<"s">>), Arr(<<Num(1), Null>>), Obj(<<>>),
                Obj(<<[key |-> KeyB, val |-> Null]>>),
                Obj(<<[key |-> KeyA, val |-> Num(1)], [key |-> KeyB, val |-> Null]>>)}
JsonValues == FlatValues \cup ArraysOver(InnerValues) \cup ObjectsOver(InnerValues)

Segments == {K(s) : s \in Keys} \cup {I(n) : n \in 0..MaxArr}
Paths == SeqsUpTo(Segments, MaxPathLen)

NewValues == {Num(2), Null, Arr(<<>>), Obj(<<[key |-> KeyB, val |-> Num(2)]>>)}

\* ------------------------------------------------------------------------
\* Reference notions the properties are stated with
\* ------------------------------------------------------------------------
RECURSIVE HasPath(_, _)
\* every segment of path names an existing element of the container reached
HasPath(v, path) ==
  IF Len(path) = 0 THEN v # Undef
  ELSE LET head == Head(path) IN
       IF IsArray(v) /\ IsNumberSeg(head) /\ head.idx < Len(v.a)
       THEN HasPath(v.a[head.idx + 1], Tail(path))
       ELSE IF IsObject(v) /\ IsStringSeg(head) /\ HasKey(v.m, head.key)
       THEN HasPath(ObjGet(v.m, head.key), Tail(path))
       ELSE FALSE

RECURSIVE NodeAt(_, _)
\* the node a resolving path names
NodeAt(v, path) ==
  IF Len(path) = 0 THEN v
  ELSE LET head == Head(path) IN
       IF IsArray(v) THEN NodeAt(v.a[head.idx + 1], Tail(path))
       ELSE NodeAt(ObjGet(v.m, head.key), Tail(path))

KeySet(m) == {m[j].key : j \in 1..Len(m)}

RECURSIVE DeepEqual(_, _)
\* same kind, same leaves, same array lengths, same key sets (any key order)
DeepEqual(x, y) ==
  IF x.k # y.k THEN FALSE
  ELSE IF IsArray(x)
       THEN Len(x.a) = Len(y.a) /\ \A j \in 1..Len(x.a) : DeepEqual(x.a[j], y.a[j])
  ELSE IF IsObject(x)
       THEN KeySet(x.m) = KeySet(y.m)
            /\ \A name \in KeySet(x.m) : DeepEqual(ObjGet(x.m, name), ObjGet(y.m, name))
  ELSE x = y

IsPrefix(p, q) == Len(p) <= Len(q) /\ SubSeq(q, 1, Len(p)) = p
ProperPrefixes(p) == {SubSeq(p, 1, n) : n \in 0..(Len(p) - 1)}

\* ------------------------------------------------------------------------
\* State
\* ------------------------------------------------------------------------
VARIABLES
  call,     \* the utility call under examination: name, arguments, result
  configStates, activeTab, loading, loadError, configSource, binaryError, runError,
  loadTask, \* loadConfigFromFile calls suspended at an await
  last,     \* the handler step that produced the current state
  terminalWarning, progressState, logBuffer,
  saveTask, \* saveConfigToFile calls suspended at an await
  runTask,  \* runMode calls suspended at their await
  editFold, \* per mode: setValue folded over the edits since the last load or reset,
            \* from the value the first of them was applied to (Undef: no edit yet)
  gestures, \* the number of user gestures handled so far
  editor,   \* the JsonEditor instances mounted in the config panel
  arrivals, \* the bursts of pioneer-log events delivered since logBuffer was last
            \* emptied, each with progressState.mode as it was on delivery
  events    \* the number of event deliveries handled so far

vars == <<call, configStates, activeTab, loading, loadError, configSource, binaryError,
          runError, loadTask, last, terminalWarning, progressState, logBuffer,
          saveTask, runTask, editFold, gestures, editor, arrivals, events>>
hostVars == <<configStates, activeTab, loading, loadError, configSource, binaryError,
              runError, loadTask, last, terminalWarning, progressState, logBuffer,
              saveTask, runTask, editFold, gestures, editor, arrivals, events>>
\* what the run handlers write
runVars == <<terminalWarning, progressState, logBuffer, runTask, arrivals, events>>

modes == {"buildSpecLib", "searchDia"}

\* nothing is mounted in the config panel
NoEditor == [control |-> "none"]

\* App.svelte as constructed, before onMount's load_configs call resolves
HostInit ==
  /\ loading = TRUE
  /\ loadError = Null
  /\ configSource = "fallback"
  /\ binaryError = Null
  /\ activeTab = "buildSpecLib"
  /\ runError = Null
  /\ configStates = [mode \in modes |-> Null]
  /\ loadTask = <<>>
  /\ last = [op |-> "construct"]
  /\ terminalWarning = Null
  /\ progressState = [running |-> FALSE, mode |-> Null, stage |-> Str(<<>>), progress |-> 0,
                      logPath |-> Null, configPath |-> Null, terminalWarning |-> Null,
                      message |-> Null]
  /\ logBuffer = <<>>
  /\ saveTask = <<>>
  /\ runTask = <<>>
  /\ editFold = [mode \in modes |-> Undef]
  /\ gestures = 0
  /\ editor = NoEditor
  /\ arrivals = <<>>
  /\ events = 0

\* ------------------------------------------------------------------------
\* The utilities applied to drawn arguments
\* ------------------------------------------------------------------------
NoCall == [fn |-> "none"]

AlgInit == call = NoCall /\ HostInit

CallGetValue ==
  /\ call = NoCall
  /\ \E root \in JsonValues, path \in Paths :
       call' = [fn |-> "getValue", root |-> root, path |-> path,
                result |-> getValue(root, path)]
  /\ UNCHANGED hostVars

CallSetValue ==
  /\ call = NoCall
  /\ \E root \in JsonValues, path \in Paths, value \in NewValues :
       call' = [fn |-> "setValue", root |-> root, path |-> path, value |-> value,
                result |-> setValue(root, path, value)]
  /\ UNCHANGED hostVars

\* write back what was read: setValue(v, p, getValue(v, p))
CallSetOfGet ==
  /\ call = NoCall
  /\ \E root \in JsonValues, path \in Paths :
       LET read == getValue(root, path) IN
       call' = [fn |-> "setOfGet", root |-> root, path |-> path, value |-> read,
                result |-> setValue(root, path, read)]
  /\ UNCHANGED hostVars

CallDeepMerge ==
  /\ call = NoCall
  /\ \E base \in JsonValues, override \in JsonValues :
       LET merged == deepMerge(base, override) IN
       call' = [fn |-> "deepMerge", base |-> base, override |-> override,
                result |-> merged, again |-> deepMerge(merged, override)]
  /\ UNCHANGED hostVars

\* setValue on stored objects: root and value exist before the call
CallSetValueOnHeap ==
  /\ call = NoCall
  /\ \E root \in JsonValues, path \in Paths, value \in NewValues :
       LET r == Store(<<>>, root)
           x == Store(r.heap, value)
           done == setValueH(x.heap, r.ref, path, x.ref)
       IN  call' = [fn |-> "setValueH", before |-> x.heap, root |-> r.ref, path |-> path,
                    value |-> x.ref, after |-> done.heap, result |-> done.ref]
  /\ UNCHANGED hostVars

CallDeleteKey ==
  /\ call = NoCall
  /\ \E root \in JsonValues, path \in Paths :
       call' = [fn |-> "deleteKey", root |-> root, path |-> path,
                result |-> deleteKey(root, path)]
  /\ UNCHANGED hostVars

CallDeleteKeyOnHeap ==
  /\ call = NoCall
  /\ \E root \in JsonValues, path \in Paths :
       LET r == Store(<<>>, root)
           done == deleteKeyH(r.heap, r.ref, path)
       IN  call' = [fn |-> "deleteKeyH", before |-> r.heap, root |-> r.ref, path |-> path,
                    after |-> done.heap, result |-> done.ref]
  /\ UNCHANGED hostVars

\* ------------------------------------------------------------------------
\* utils.ts: collectPaths; App.svelte: clone, computeImportant
\* ------------------------------------------------------------------------
RECURSIVE Join(_, _)
\* Array.prototype.join
Join(parts, sep) ==
  IF Len(parts) = 0 THEN <<>>
  ELSE IF Len(parts) = 1 THEN parts[1]
  ELSE parts[1] \o sep \o Join(Tail(parts), sep)

RECURSIVE Split(_, _)
\* String.prototype.split on a one-character separator
Split(str, sep) ==
  IF \A j \in 1..Len(str) : str[j] # sep THEN <<str>>
  ELSE LET cut == CHOOSE j \in 1..Len(str) :
                    str[j] = sep /\ \A i \in 1..(j - 1) : str[i] # sep
       IN  <<SubSeq(str, 1, cut - 1)>> \o Split(SubSeq(str, cut + 1, Len(str)), sep)

RECURSIVE FlatMap(_, _, _)
RECURSIVE FlatMapReversed(_, _, _)
RECURSIVE collectPaths(_, _)
\* flatMap of collectPaths over the children, children given as <<name, child>> pairs
FlatMapReversed(children, prefix, from) ==
  IF from > Len(children) THEN <<>>
  ELSE FlatMapReversed(children, prefix, from + 1)
       \o collectPaths(children[from][2], Append(prefix, children[from][1]))

FlatMap(children, prefix, from) ==
  IF from > Len(children) THEN <<>>
  ELSE collectPaths(children[from][2], Append(prefix, children[from][1]))
       \o FlatMap(children, prefix, from + 1)

collectPaths(value, prefix) ==
  IF IsPrimitive(value) THEN <<Join(prefix, <<".">>)>>
  ELSE IF IsArray(value)
       THEN FlatMap([j \in 1..Len(value.a) |-> <<NumToString(j - 1), value.a[j]>>], prefix, 1)
  ELSE FlatMap([j \in 1..Len(value.m) |-> <<value.m[j].key, value.m[j].val>>], prefix, 1)

computeImportant(value) ==
  LET rawPaths == collectPaths(value, <<>>) IN
  UNION {LET segments == Split(rawPaths[n], ".") IN
         {Join(SubSeq(segments, 1, i), <<".">>) : i \in 1..Len(segments)}
         : n \in {j \in 1..Len(rawPaths) : Len(rawPaths[j]) > 0}}

\* {"p": {"q": 1, "r": [2, 3]}}
ScenarioTree ==
  Obj(<<[key |-> <<"p">>,
         val |-> Obj(<<[key |-> <<"q">>, val |-> Num(1)],
                       [key |-> <<"r">>, val |-> Arr(<<Num(2), Num(3)>>)]>>)]>>)

\* {"a.b": 1} and {"a.b": 1, "a": {"b": 2}}
KeyDotted == <<"a", ".", "b">>
DottedLeaf == Obj(<<[key |-> KeyDotted, val |-> Num(1)]>>)
DottedTree ==
  Obj(<<[key |-> KeyDotted, val |-> Num(1)],
        [key |-> KeyA, val |-> Obj(<<[key |-> KeyB, val |-> Num(2)]>>)]>>)

CollectValues == JsonValues \cup {ScenarioTree, DottedLeaf, DottedTree}

CallCollectPaths ==
  /\ call = NoCall
  /\ \E value \in CollectValues :
       call' = [fn |-> "collectPaths", root |-> value, result |-> collectPaths(value, <<>>)]
  /\ UNCHANGED hostVars

CallComputeImportant ==
  /\ call = NoCall
  /\ \E value \in CollectValues :
       call' = [fn |-> "computeImportant", root |-> value, result |-> computeImportant(value)]
  /\ UNCHANGED hostVars

RECURSIVE clone(_)
\* JSON.parse(JSON.stringify(value)): undefined becomes null in an array and
\* is left out of an object
clone(value) ==
  IF IsArray(value)
  THEN Arr([j \in 1..Len(value.a) |->
              IF value.a[j] = Undef THEN Null ELSE clone(value.a[j])])
  ELSE IF IsObject(value)
  THEN LET kept == SelectSeq(value.m, LAMBDA e : e.val # Undef) IN
       Obj([j \in 1..Len(kept) |-> [key |-> kept[j].key, val |-> clone(kept[j].val)]])
  ELSE value

\* x ?? y
Coalesce(x, y) == IF x = Undef \/ x = Null THEN y ELSE x

\* JavaScript truthiness of a value
Truthy(x) ==
  /\ x # Undef /\ x # Null
  /\ x # Bool(FALSE) /\ x # Num(0) /\ x # Str(<<>>)

\* ------------------------------------------------------------------------
\* Inputs of the host: load_configs responses, files, dialog results, typing
\* ------------------------------------------------------------------------
Entry(name, val) == [key |-> name, val |-> val]

DefaultA == Obj(<<Entry(KeyA, Num(1)),
                  Entry(KeyB, Obj(<<Entry(KeyA, Bool(TRUE)), Entry(KeyB, Arr(<<Num(1)>>))>>))>>)
DefaultB == Obj(<<Entry(KeyA, Arr(<<Obj(<<Entry(KeyA, Str(<<"s">>))>>)>>))>>)
SimplifiedA == Obj(<<Entry(KeyB, Obj(<<Entry(KeyA, Bool(TRUE))>>))>>)
SimplifiedB == Obj(<<Entry(KeyA, Arr(<<Obj(<<Entry(KeyA, Str(<<"s">>))>>)>>))>>)
StoredPath == Str(<<"p">>)
ErrorText == Str(<<"e">>)

\* build: with or without a stored configuration; search: none stored
BuildSets ==
  { [default_config |-> DefaultA, simplified_config |-> SimplifiedA,
     persisted_config |-> Undef, persisted_path |-> Undef],
    [default_config |-> DefaultA, simplified_config |-> SimplifiedA,
     persisted_config |-> Obj(<<Entry(KeyA, Num(2))>>), persisted_path |-> StoredPath],
    [default_config |-> DefaultA, simplified_config |-> SimplifiedA,
     persisted_config |-> Obj(<<Entry(KeyB, Num(2))>>), persisted_path |-> StoredPath] }
SearchSets ==
  { [default_config |-> DefaultB, simplified_config |-> SimplifiedB,
     persisted_config |-> Null, persisted_path |-> Null] }

Responses ==
  { [build |-> b, search |-> s,
     source |-> IF b.persisted_config = Undef THEN "binary" ELSE "fallback",
     binary_error |-> IF b.persisted_config = Undef THEN Undef ELSE ErrorText]
    : b \in BuildSets, s \in SearchSets }

FilePaths == {Str(<<"f">>)}
FileValues == {Obj(<<Entry(KeyA, Num(2))>>), Obj(<<Entry(KeyB, Num(2))>>)}

NumberTexts == {<<>>, <<"2">>}
StringTexts == {<<"t">>}
ArrayTexts == {<<"2">>}

\* Number(text) for the text of a number input holding a natural number
ToNumber(text) == CHOOSE n \in 0..99 : NumToString(n) = text

\* ------------------------------------------------------------------------
\* JavaScript text conversions used by the editor, on texts made of digits,
\* signs, letters, spaces, quotes, brackets, commas and line feeds
\* ------------------------------------------------------------------------
NL == "\n"
Quote == "\""
TextTrue == <<"t", "r", "u", "e">>
TextFalse == <<"f", "a", "l", "s", "e">>
TextNull == <<"n", "u", "l", "l">>

RECURSIVE trim(_)
\* String.prototype.trim
trim(str) ==
  IF Len(str) = 0 THEN str
  ELSE IF Head(str) \in {" ", NL} THEN trim(Tail(str))
  ELSE IF str[Len(str)] \in {" ", NL} THEN trim(SubSeq(str, 1, Len(str) - 1))
  ELSE str

IsDigits(str) == Len(str) > 0 /\ \A j \in 1..Len(str) : \E n \in 0..9 : str[j] = Digit(n)

RECURSIVE DigitsValue(_)
\* the natural number a string of decimal digits denotes
DigitsValue(str) ==
  LET unit == CHOOSE n \in 0..9 : Digit(n) = str[Len(str)] IN
  IF Len(str) = 1 THEN unit
  ELSE DigitsValue(SubSeq(str, 1, Len(str) - 1)) * 10 + unit

NaN == [k |-> "nan"]
SyntaxError == [k |-> "throw"]

\* Number(text): white space is stripped, the empty text is 0, a decimal
\* integer with an optional sign is its value, any other text here is NaN
Number(str) ==
  LET t == trim(str) IN
  IF t = <<>> THEN Num(0)
  ELSE IF IsDigits(t) THEN Num(DigitsValue(t))
  ELSE IF Head(t) = "-" /\ IsDigits(Tail(t)) THEN Num(0 - DigitsValue(Tail(t)))
  ELSE IF Head(t) = "+" /\ IsDigits(Tail(t)) THEN Num(DigitsValue(Tail(t)))
  ELSE NaN

\* String(value) for a scalar
String(value) ==
  IF value = Null THEN TextNull
  ELSE IF value.k = "bool" THEN (IF value.b THEN TextTrue ELSE TextFalse)
  ELSE IF value.k = "num"
       THEN (IF value.n < 0 THEN <<"-">> \o NumToString(0 - value.n) ELSE NumToString(value.n))
  ELSE value.s

\* JSON.parse of a scalar literal: null, true, false, an integer without
\* leading zeros or plus sign, a quoted string without escapes
parseScalar(t) ==
  IF t = TextNull THEN Null
  ELSE IF t = TextTrue THEN Bool(TRUE)
  ELSE IF t = TextFalse THEN Bool(FALSE)
  ELSE IF IsDigits(t) /\ (Len(t) = 1 \/ Head(t) # "0") THEN Num(DigitsValue(t))
  ELSE IF Len(t) > 1 /\ Head(t) = "-" /\ IsDigits(Tail(t))
          /\ (Len(t) = 2 \/ t[2] # "0") THEN Num(0 - DigitsValue(Tail(t)))
  ELSE IF Len(t) >= 2 /\ Head(t) = Quote /\ t[Len(t)] = Quote
          /\ \A j \in 2..(Len(t) - 1) : t[j] \notin {Quote, "\\", NL}
       THEN Str(SubSeq(t, 2, Len(t) - 1))
  ELSE SyntaxError

\* JSON.parse(text) for a scalar literal, {}, or an array of scalar literals
JSONparse(str) ==
  LET t == trim(str) IN
  IF t = <<"{", "}">> THEN Obj(<<>>)
  ELSE IF Len(t) >= 2 /\ Head(t) = "[" /\ t[Len(t)] = "]"
       THEN LET inner == trim(SubSeq(t, 2, Len(t) - 1))
                parts == Split(inner, ",")
                items == [j \in 1..Len(parts) |-> parseScalar(trim(parts[j]))]
            IN  IF inner = <<>> THEN Arr(<<>>)
                ELSE IF \E j \in 1..Len(items) : items[j] = SyntaxError THEN SyntaxError
                ELSE Arr(items)
  ELSE parseScalar(t)

\* JSON.stringify(value) without indentation, for a scalar
JSONstringify(value) ==
  IF value.k = "str" THEN <<Quote>> \o value.s \o <<Quote>> ELSE String(value)

\* utils.ts stringifyValue for a scalar
stringifyValue(value) == IF value = Null THEN TextNull ELSE String(value)

\* Array.prototype.filter keeping every line
keepAll(lines) == lines

RECURSIVE nonEmpty(_)
\* .filter((line) => line.length > 0)
nonEmpty(lines) ==
  IF Len(lines) = 0 THEN <<>>
  ELSE (IF Len(Head(lines)) > 0 THEN <<Head(lines)>> ELSE <<>>) \o nonEmpty(Tail(lines))

\* a map callback that keeps every line as a string
parseLineRaw(line) == Str(line)

\* the map callback of commitArrayChanges
parseLine(line) ==
  IF line = TextTrue \/ line = TextFalse THEN Bool(line = TextTrue)
  ELSE IF Number(line) # NaN THEN Number(line)
  ELSE IF JSONparse(line) # SyntaxError THEN JSONparse(line)
  ELSE Str(line)

\* ------------------------------------------------------------------------
\* JsonEditor.svelte: the (path, value) events the rendered controls can emit
\* ------------------------------------------------------------------------
handleBooleanChange(path, checked) == [path |-> path, value |-> Bool(checked)]

handleNumberChange(path, text) ==
  [path |-> path, value |-> IF text = <<>> THEN Null ELSE Num(ToNumber(text))]

handleStringChange(path, text) == [path |-> path, value |-> Str(text)]

arrayHasOnlyPrimitives(value) ==
  IsArray(value) /\ \A j \in 1..Len(value.a) : IsPrimitive(value.a[j])

\* the text shown in the block of an array of scalars
arrayText(value) ==
  Join([j \in 1..Len(value.a) |->
          IF value.a[j] = Null THEN JSONstringify(value.a[j])
          ELSE stringifyValue(value.a[j])], <<NL>>)

commitArrayChanges(path, text) ==
  LET split == Split(text, NL)
      lines == nonEmpty([j \in 1..Len(split) |-> trim(split[j])])
      parsed == [j \in 1..Len(lines) |-> parseLine(lines[j])]
  IN  [path |-> path, value |-> Arr(parsed)]

RECURSIVE JsonEditor(_, _)
\* the events of the component rendered for value at path, children included
JsonEditor(value, path) ==
  IF value = Null \/ value = Undef THEN {}
  ELSE IF value.k = "bool" THEN {handleBooleanChange(path, ~value.b)}
  ELSE IF value.k = "num" THEN {handleNumberChange(path, text) : text \in NumberTexts}
  ELSE IF value.k = "str" THEN {handleStringChange(path, text) : text \in StringTexts}
  ELSE IF IsArray(value)
       THEN IF arrayHasOnlyPrimitives(value)
            THEN {commitArrayChanges(path, text) : text \in ArrayTexts}
            ELSE UNION {JsonEditor(value.a[j], Append(path, I(j - 1))) : j \in 1..Len(value.a)}
  ELSE UNION {JsonEditor(value.m[j].val, Append(path, K(value.m[j].key))) : j \in 1..Len(value.m)}

\* the branch of the template taken for a value
Control(value) ==
  IF value = Null THEN "readonly"
  ELSE IF value.k = "bool" THEN "checkbox"
  ELSE IF value.k = "num" THEN "number"
  ELSE IF value.k = "str" THEN "text"
  ELSE IF IsArray(value)
       THEN (IF arrayHasOnlyPrimitives(value) THEN "textBlock" ELSE "elements")
  ELSE "entries"

RECURSIVE Rendered(_, _)
\* the components rendered for value at path: each with its path prop and control
Rendered(value, path) ==
  {[path |-> path, control |-> Control(value)]}
  \cup (IF Control(value) = "elements"
        THEN UNION {Rendered(value.a[j], Append(path, I(j - 1))) : j \in 1..Len(value.a)}
        ELSE IF Control(value) = "entries" /\ IsObject(value)
        THEN UNION {Rendered(value.m[j].val, Append(path, K(value.m[j].key)))
                    : j \in 1..Len(value.m)}
        ELSE {})

\* path.map(String).join('.')
pathKey(path) == Join([j \in 1..Len(path) |-> PropName(path[j])], <<".">>)

\* the value and path props the template passes to each child component
Children(value, path) ==
  IF Control(value) = "elements"
  THEN [j \in 1..Len(value.a) |-> [value |-> value.a[j], path |-> Append(path, I(j - 1))]]
  ELSE IF Control(value) = "entries" /\ IsObject(value)
  THEN [j \in 1..Len(value.m) |-> [value |-> value.m[j].val,
                                    path |-> Append(path, K(value.m[j].key))]]
  ELSE <<>>

RECURSIVE Mount(_, _, _)
\* a component instance is created: its script runs once, fixing the consts
\* pathKey and isImportant; its children are created in turn
Mount(value, path, important) ==
  LET children == Children(value, path) IN
  [ path |-> path,
    pathKey |-> pathKey(path),
    isImportant |-> pathKey(path) \in important,
    control |-> Control(value),
    kids |-> [j \in 1..Len(children) |->
                Mount(children[j].value, children[j].path, important)] ]

RECURSIVE Update(_, _, _, _)
\* an existing instance receives new props: the consts stay; an unkeyed each
\* block keeps the child at each index, creates the ones added at the end
\* and destroys the surplus; a change of branch recreates the children
Update(inst, value, path, important) ==
  LET children == Children(value, path) IN
  [ path |-> path,
    pathKey |-> inst.pathKey,
    isImportant |-> inst.isImportant,
    control |-> Control(value),
    kids |-> [j \in 1..Len(children) |->
                IF Control(value) = inst.control /\ j <= Len(inst.kids)
                THEN Update(inst.kids[j], children[j].value, children[j].path, important)
                ELSE Mount(children[j].value, children[j].path, important)] ]

RECURSIVE Instances(_)
Instances(inst) ==
  IF "kids" \in DOMAIN inst
  THEN {inst} \cup UNION {Instances(inst.kids[j]) : j \in 1..Len(inst.kids)}
  ELSE {}

\* the scalars an array shown in the text block can hold
BlockItems ==
  { Null, Bool(TRUE), Bool(FALSE), Num(1), Num(12), Str(<<"x">>), Str(<<"1">>), Str(<<>>),
    Str(<<" ", "x">>), Str(TextTrue), Str(<<"x", NL, "y">>), Str(<<"[", "1", "]">>) }

\* the block is generated from an array and committed unedited
CallArrayRoundTrip ==
  /\ call = NoCall
  /\ \E a \in SeqsUpTo(BlockItems, MaxArr) :
       LET text == arrayText(Arr(a)) IN
       call' = [fn |-> "arrayRoundTrip", array |-> Arr(a), text |-> text,
                parsed |-> commitArrayChanges(<<>>, text).value]
  /\ UNCHANGED hostVars

CallJsonEditor ==
  /\ call = NoCall
  /\ \E value \in JsonValues :
       call' = [fn |-> "JsonEditor", root |-> value, nodes |-> Rendered(value, <<>>),
                events |-> JsonEditor(value, <<>>)]
  /\ UNCHANGED hostVars

\* the lines a user can type into the text block, each with the value it
\* stands for (Blank: none)
Blank == [k |-> "blank"]
TypedLines ==
  { [text |-> <<>>, means |-> Blank],
    [text |-> <<" ">>, means |-> Blank],
    [text |-> <<"1">>, means |-> Num(1)],
    [text |-> <<"2">>, means |-> Num(2)],
    [text |-> <<"3">>, means |-> Num(3)],
    [text |-> <<" ", "1", "2">>, means |-> Num(12)],
    [text |-> TextTrue, means |-> Bool(TRUE)],
    [text |-> TextFalse, means |-> Bool(FALSE)],
    [text |-> TextNull, means |-> Null],
    [text |-> <<"[", "1", ",", "2", "]">>, means |-> Arr(<<Num(1), Num(2)>>)],
    [text |-> <<Quote, "x", Quote>>, means |-> Str(<<"x">>)],
    [text |-> <<"x">>, means |-> Str(<<"x">>)],
    [text |-> <<"[", "1">>, means |-> Str(<<"[", "1">>)] }

\* the change event of the text block of the array at a path, for a typed text
CallCommitArrayChanges ==
  /\ call = NoCall
  /\ \E typed \in SeqsUpTo(TypedLines, MaxLines), path \in {<<>>, <<K(KeyA)>>} :
       LET text == Join([j \in 1..Len(typed) |-> typed[j].text], <<NL>>) IN
       call' = [fn |-> "commitArrayChanges", typed |-> typed, text |-> text, path |-> path,
                events |-> {commitArrayChanges(path, text)}]
  /\ UNCHANGED hostVars

AlgNext ==
  \/ CallGetValue
  \/ CallSetValue
  \/ CallSetOfGet
  \/ CallDeepMerge
  \/ CallSetValueOnHeap
  \/ CallDeleteKey
  \/ CallDeleteKeyOnHeap
  \/ CallCollectPaths
  \/ CallComputeImportant
  \/ CallCommitArrayChanges
  \/ CallJsonEditor
  \/ CallArrayRoundTrip

SpecAlg == AlgInit /\ [][AlgNext]_vars

\* ------------------------------------------------------------------------
\* App.svelte
\* ------------------------------------------------------------------------
initialiseState(response) ==
  [mode \in modes |->
     LET set == IF mode = "buildSpecLib" THEN response.build ELSE response.search IN
     [ defaults |-> clone(set.default_config),
       current |-> clone(Coalesce(set.persisted_config, set.default_config)),
       important |-> computeImportant(set.simplified_config),
       source |-> response.source,
       lastLoadedPath |-> IF Truthy(set.persisted_config)
                          THEN Coalesce(set.persisted_path, Undef) ELSE Undef,
       persistedPath |-> Coalesce(set.persisted_path, Undef) ]]

\* the template is brought up to date after a handler step: the panel is
\* rendered {#if currentState} inside {#if !loading && !loadError}, and
\* {#key activeTab} recreates the editor when the tab changes
Flush ==
  editor' =
    IF ~loading' /\ loadError' = Null /\ configStates'[activeTab'] # Null
    THEN LET state == configStates'[activeTab'] IN
         IF editor = NoEditor \/ activeTab' # activeTab
         THEN Mount(state.current, <<>>, state.important)
         ELSE Update(editor, state.current, <<>>, state.important)
    ELSE NoEditor

\* a click or an input event is handled
Gesture == gestures < MaxGestures /\ gestures' = gestures + 1
\* a promise settles
Completion == gestures' = gestures

\* onMount: load_configs resolves with a response
MountLoaded ==
  /\ loading
  /\ Completion
  /\ \E response \in Responses :
       /\ configSource' = response.source
       /\ binaryError' = Coalesce(response.binary_error, Null)
       /\ configStates' = initialiseState(response)
       /\ editFold' = [mode \in modes |-> Undef]
       /\ last' = [op |-> "initialiseState", response |-> response]
  /\ loading' = FALSE
  /\ UNCHANGED <<call, activeTab, loadError, runError, loadTask, saveTask, runVars>>
  /\ Flush

\* onMount: load_configs rejects
MountFailed ==
  /\ loading
  /\ Completion
  /\ loadError' = ErrorText
  /\ loading' = FALSE
  /\ last' = [op |-> "loadFailed"]
  /\ UNCHANGED <<call, configStates, activeTab, configSource, binaryError, runError, loadTask,
                 saveTask, runVars, editFold>>
  /\ Flush

\* the workspace section is rendered
WorkspaceShown == ~loading /\ loadError = Null
\* the config panel of the active tab is rendered
PanelShown == WorkspaceShown /\ configStates[activeTab] # Null

SelectTab ==
  /\ WorkspaceShown
  /\ Gesture
  /\ \E mode \in modes : activeTab' = mode
  /\ last' = [op |-> "selectTab"]
  /\ UNCHANGED <<call, configStates, loading, loadError, configSource, binaryError,
                 runError, loadTask, saveTask, runVars, editFold>>
  /\ Flush

\* handleUpdate(mode, path, value), called through forwardUpdate(activeTab)
handleUpdate ==
  /\ PanelShown
  /\ Gesture
  /\ \E event \in JsonEditor(configStates[activeTab].current, <<>>) :
       LET mode == activeTab
           state == configStates[mode]
           updated == [state EXCEPT !.current = setValue(state.current, event.path, event.value)]
       IN  /\ configStates' = [configStates EXCEPT ![mode] = updated]
           /\ editFold' = [editFold EXCEPT ![mode] =
                             setValue(IF @ = Undef THEN state.current ELSE @,
                                      event.path, event.value)]
           /\ last' = [op |-> "handleUpdate", mode |-> mode, path |-> event.path,
                       value |-> event.value]
  /\ runError' = Null
  /\ UNCHANGED <<call, activeTab, loading, loadError, configSource, binaryError, loadTask,
                 saveTask, runVars>>
  /\ Flush

RemoveAt(tasks, i) == SubSeq(tasks, 1, i - 1) \o SubSeq(tasks, i + 1, Len(tasks))

\* the handler calls suspended at an await
Pending == Len(loadTask) + Len(saveTask) + Len(runTask)

\* loadConfigFromFile(mode) up to its first await: the open dialog is shown
loadConfigFromFile ==
  /\ PanelShown
  /\ Gesture
  /\ Pending < MaxPending
  /\ loadTask' = Append(loadTask, [mode |-> activeTab, pc |-> "open", selected |-> Null])
  /\ last' = [op |-> "loadConfigFromFile", mode |-> activeTab, outcome |-> "opened"]
  /\ UNCHANGED <<call, configStates, activeTab, loading, loadError, configSource,
                 binaryError, runError, saveTask, runVars, editFold>>
  /\ Flush

\* open() resolves: null when the dialog was cancelled, else the chosen path
loadDialogClosed ==
  \E i \in 1..Len(loadTask) :
    /\ Completion
    /\ loadTask[i].pc = "open"
    /\ \E selected \in FilePaths \cup {Null} :
         IF ~Truthy(selected)
         THEN /\ loadTask' = RemoveAt(loadTask, i)
              /\ last' = [op |-> "loadConfigFromFile", mode |-> loadTask[i].mode,
                          outcome |-> "cancelled",
                          before |-> configStates[loadTask[i].mode].current]
         ELSE /\ loadTask' = [loadTask EXCEPT ![i] = [@ EXCEPT !.pc = "read", !.selected = selected]]
              /\ last' = [op |-> "loadConfigFromFile", mode |-> loadTask[i].mode,
                          outcome |-> "selected"]
    /\ UNCHANGED <<call, configStates, activeTab, loading, loadError, configSource,
                   binaryError, runError, saveTask, runVars, editFold>>
    /\ Flush

\* loadConfigFromFile that replaces current by the file's value
loadReadReplacing ==
  \E i \in 1..Len(loadTask) :
    /\ Completion
    /\ loadTask[i].pc = "read"
    /\ \E loaded \in FileValues :
         LET mode == loadTask[i].mode
             selected == loadTask[i].selected
             state == configStates[mode]
             updated == [state EXCEPT !.current = loaded, !.lastLoadedPath = selected]
         IN  /\ configStates' = [configStates EXCEPT ![mode] = updated]
             /\ editFold' = [editFold EXCEPT ![mode] = Undef]
             /\ last' = [op |-> "loadConfigFromFile", mode |-> mode, outcome |-> "loaded",
                         loaded |-> loaded, selected |-> selected]
    /\ runError' = Null
    /\ loadTask' = RemoveAt(loadTask, i)
    /\ UNCHANGED <<call, activeTab, loading, loadError, configSource, binaryError,
                   saveTask, runVars>>
    /\ Flush

\* loadConfigFromFile that updates the tab active when read_config resolves
loadReadActiveTab ==
  \E i \in 1..Len(loadTask) :
    /\ Completion
    /\ loadTask[i].pc = "read"
    /\ \E loaded \in FileValues :
         LET mode == activeTab
             selected == loadTask[i].selected
             state == configStates[mode]
             updated == [state EXCEPT !.current = deepMerge(state.defaults, loaded),
                                      !.lastLoadedPath = selected]
         IN  /\ configStates' = [configStates EXCEPT ![mode] = updated]
             /\ editFold' = [editFold EXCEPT ![mode] = Undef]
             /\ last' = [op |-> "loadConfigFromFile", mode |-> loadTask[i].mode,
                         outcome |-> "loaded", loaded |-> loaded, selected |-> selected]
    /\ runError' = Null
    /\ loadTask' = RemoveAt(loadTask, i)
    /\ UNCHANGED <<call, activeTab, loading, loadError, configSource, binaryError,
                   saveTask, runVars>>
    /\ Flush

\* read_config resolves with the parsed file
loadRead ==
  \E i \in 1..Len(loadTask) :
    /\ Completion
    /\ loadTask[i].pc = "read"
    /\ \E loaded \in FileValues :
         LET mode == loadTask[i].mode
             selected == loadTask[i].selected
             state == configStates[mode]
             updated == [state EXCEPT !.current = deepMerge(state.defaults, loaded),
                                      !.lastLoadedPath = selected]
         IN  /\ configStates' = [configStates EXCEPT ![mode] = updated]
             /\ editFold' = [editFold EXCEPT ![mode] = Undef]
             /\ last' = [op |-> "loadConfigFromFile", mode |-> mode, outcome |-> "loaded",
                         loaded |-> loaded, selected |-> selected]
    /\ runError' = Null
    /\ loadTask' = RemoveAt(loadTask, i)
    /\ UNCHANGED <<call, activeTab, loading, loadError, configSource, binaryError,
                   saveTask, runVars>>
    /\ Flush

\* read_config rejects
loadReadFailed ==
  \E i \in 1..Len(loadTask) :
    /\ Completion
    /\ loadTask[i].pc = "read"
    /\ runError' = ErrorText
    /\ last' = [op |-> "loadConfigFromFile", mode |-> loadTask[i].mode,
                outcome |-> "failed", before |-> configStates[loadTask[i].mode].current]
    /\ loadTask' = RemoveAt(loadTask, i)
    /\ UNCHANGED <<call, configStates, activeTab, loading, loadError, configSource, binaryError,
                   saveTask, runVars, editFold>>
    /\ Flush

\* resetToDefaults that leaves lastLoadedPath as it is
resetKeepingPath ==
  /\ PanelShown
  /\ Gesture
  /\ LET mode == activeTab
         state == configStates[mode]
         updated == [state EXCEPT !.current = clone(state.defaults)]
     IN  /\ configStates' = [configStates EXCEPT ![mode] = updated]
         /\ editFold' = [editFold EXCEPT ![mode] = Undef]
         /\ last' = [op |-> "resetToDefaults", mode |-> mode]
  /\ runError' = Null
  /\ UNCHANGED <<call, activeTab, loading, loadError, configSource, binaryError, loadTask,
                 saveTask, runVars>>
  /\ Flush

resetToDefaults ==
  /\ PanelShown
  /\ Gesture
  /\ LET mode == activeTab
         state == configStates[mode]
         updated == [state EXCEPT !.current = clone(state.defaults), !.lastLoadedPath = Undef]
     IN  /\ configStates' = [configStates EXCEPT ![mode] = updated]
         /\ editFold' = [editFold EXCEPT ![mode] = Undef]
         /\ last' = [op |-> "resetToDefaults", mode |-> mode]
  /\ runError' = Null
  /\ UNCHANGED <<call, activeTab, loading, loadError, configSource, binaryError, loadTask,
                 saveTask, runVars>>
  /\ Flush

\* saveConfigToFile(mode) up to its first await: state is captured, the save
\* dialog is shown
saveConfigToFile ==
  /\ PanelShown
  /\ Gesture
  /\ Pending < MaxPending
  /\ saveTask' = Append(saveTask, [mode |-> activeTab, pc |-> "dialog",
                                   state |-> configStates[activeTab], filePath |-> Null])
  /\ last' = [op |-> "saveConfigToFile", mode |-> activeTab, outcome |-> "opened"]
  /\ UNCHANGED <<call, configStates, activeTab, loading, loadError, configSource,
                 binaryError, runError, loadTask, runVars, editFold>>
  /\ Flush

\* save() resolves: null when the dialog was cancelled, else the chosen path
saveDialogClosed ==
  \E i \in 1..Len(saveTask) :
    /\ Completion
    /\ saveTask[i].pc = "dialog"
    /\ \E filePath \in FilePaths \cup {Null} :
         IF ~Truthy(filePath)
         THEN /\ saveTask' = RemoveAt(saveTask, i)
              /\ last' = [op |-> "saveConfigToFile", mode |-> saveTask[i].mode,
                          outcome |-> "cancelled"]
         ELSE /\ saveTask' = [saveTask EXCEPT ![i] = [@ EXCEPT !.pc = "invoke",
                                                               !.filePath = filePath]]
              /\ last' = [op |-> "saveConfigToFile", mode |-> saveTask[i].mode,
                          outcome |-> "selected", config |-> saveTask[i].state.current]
    /\ UNCHANGED <<call, configStates, activeTab, loading, loadError, configSource,
                   binaryError, runError, loadTask, runVars, editFold>>
    /\ Flush

\* save_config resolves: the captured state is written back with the new path
saveInvoked ==
  \E i \in 1..Len(saveTask) :
    /\ Completion
    /\ saveTask[i].pc = "invoke"
    /\ LET mode == saveTask[i].mode
           state == saveTask[i].state
           updated == [state EXCEPT !.lastLoadedPath = saveTask[i].filePath]
       IN  /\ configStates' = [configStates EXCEPT ![mode] = updated]
           /\ last' = [op |-> "saveConfigToFile", mode |-> mode, outcome |-> "saved"]
    /\ saveTask' = RemoveAt(saveTask, i)
    /\ UNCHANGED <<call, activeTab, loading, loadError, configSource, binaryError,
                   runError, loadTask, runVars, editFold>>
    /\ Flush

\* save() or save_config rejects
saveFailed ==
  \E i \in 1..Len(saveTask) :
    /\ Completion
    /\ runError' = ErrorText
    /\ last' = [op |-> "saveConfigToFile", mode |-> saveTask[i].mode, outcome |-> "failed"]
    /\ saveTask' = RemoveAt(saveTask, i)
    /\ UNCHANGED <<call, configStates, activeTab, loading, loadError, configSource,
                   binaryError, loadTask, runVars, editFold>>
    /\ Flush

updateProgress(state, partial) ==
  [field \in DOMAIN state |->
     IF field \in DOMAIN partial THEN partial[field] ELSE state[field]]

StagePreparing == Str(<<"P", "r", "e", "p", "a", "r", "i", "n", "g">>)
StageFailed == Str(<<"F", "a", "i", "l", "e", "d">>)

\* the payloads run_pioneer resolves with
RunStartedPayloads ==
  { [log_path |-> Str(<<"l">>), config_path |-> Str(<<"c">>), persisted_path |-> stored]
    : stored \in {Undef, StoredPath} }

\* runMode(mode) up to its await: the Run button is disabled while running
runMode ==
  /\ PanelShown
  /\ Gesture
  /\ ~progressState.running
  /\ Pending < MaxPending
  /\ progressState' = updateProgress(progressState,
        [running |-> TRUE, mode |-> Str(<<activeTab>>), stage |-> StagePreparing,
         progress |-> 0, logPath |-> Null, configPath |-> Null, message |-> Null,
         terminalWarning |-> Null])
  /\ runError' = Null
  /\ terminalWarning' = Null
  /\ logBuffer' = <<>>
  /\ arrivals' = <<>>
  /\ runTask' = Append(runTask, [mode |-> activeTab])
  /\ last' = [op |-> "runMode", mode |-> activeTab, outcome |-> "invoked",
              config |-> configStates[activeTab].current]
  /\ UNCHANGED <<call, configStates, activeTab, loading, loadError, configSource,
                 binaryError, loadTask, saveTask, editFold, events>>
  /\ Flush

\* run_pioneer resolves
runStarted ==
  \E i \in 1..Len(runTask), payload \in RunStartedPayloads :
    LET mode == runTask[i].mode
        updatedState == configStates[mode]
    IN  /\ progressState' = updateProgress(progressState,
              [logPath |-> payload.log_path, configPath |-> payload.config_path])
        /\ configStates' =
              IF Truthy(payload.persisted_path) /\ updatedState # Null
              THEN [configStates EXCEPT ![mode] =
                      [updatedState EXCEPT !.lastLoadedPath = payload.persisted_path,
                                           !.persistedPath = payload.persisted_path]]
              ELSE configStates
        /\ last' = [op |-> "runMode", mode |-> mode, outcome |-> "started"]
        /\ runTask' = RemoveAt(runTask, i)
        /\ Completion
        /\ UNCHANGED <<call, activeTab, loading, loadError, configSource, binaryError,
                       runError, loadTask, saveTask, terminalWarning, logBuffer, editFold,
                       arrivals, events>>
        /\ Flush

\* run_pioneer rejects
runRejected ==
  \E i \in 1..Len(runTask) :
    /\ Completion
    /\ runError' = ErrorText
    /\ progressState' = updateProgress(progressState,
          [running |-> FALSE, mode |-> Null, message |-> ErrorText, stage |-> StageFailed])
    /\ last' = [op |-> "runMode", mode |-> runTask[i].mode, outcome |-> "failed"]
    /\ runTask' = RemoveAt(runTask, i)
    /\ UNCHANGED <<call, configStates, activeTab, loading, loadError, configSource,
                   binaryError, loadTask, saveTask, terminalWarning, logBuffer, editFold,
                   arrivals, events>>
    /\ Flush

maxLogEntries == 120

StageSearching == Str(<<"Searching">>)
StageCompleted == Str(<<"Completed">>)
MessageCompleted == Str(<<"Pioneer completed successfully.">>)
MessageError == Str(<<"Pioneer finished with an error.">>)
MessageRunFailed == Str(<<"Run failed.">>)
WarningText == Str(<<"w">>)

\* the payloads the backend emits
ProgressPayloads ==
  { [mode |-> Str(<<mode>>), stage_key |-> Str(<<"search">>), stage_label |-> StageSearching,
     progress |-> 50] : mode \in modes }
RunCompletePayloads ==
  { [mode |-> Str(<<mode>>), success |-> success, exit_code |-> IF success THEN 0 ELSE 1,
     message |-> message]
    : mode \in modes, success \in BOOLEAN, message \in {Undef} }
  \cup { [mode |-> Str(<<mode>>), success |-> FALSE, exit_code |-> 1, message |-> ErrorText]
         : mode \in modes }
\* the line of the n-th pioneer-log event since the buffer was emptied
LogPayload(mode, n) == [mode |-> Str(<<mode>>), stream |-> "stdout", line |-> n]
\* how many pioneer-log events arrive back to back
LogBursts == {1, maxLogEntries}

\* an event is delivered to a registered listener
Delivery == events < MaxEvents /\ events' = events + 1 /\ Completion

\* items.slice(0, n)
sliceFirst(items, n) == SubSeq(items, 1, IF Len(items) < n THEN Len(items) ELSE n)
\* items.slice(-n)
sliceLast(items, n) ==
  SubSeq(items, (IF Len(items) > n THEN Len(items) - n ELSE 0) + 1, Len(items))

\* the pioneer-progress listener
pioneerProgress ==
  /\ WorkspaceShown
  /\ Delivery
  /\ \E payload \in ProgressPayloads :
       /\ progressState' =
            IF Truthy(progressState.mode) /\ payload.mode # progressState.mode
            THEN progressState
            ELSE updateProgress(progressState,
                   [running |-> TRUE, mode |-> payload.mode, stage |-> payload.stage_label,
                    progress |-> payload.progress])
       /\ last' = [op |-> "pioneer-progress", payload |-> payload]
  /\ UNCHANGED <<call, configStates, activeTab, loading, loadError, configSource,
                 binaryError, runError, loadTask, saveTask, editFold, terminalWarning,
                 logBuffer, runTask, arrivals>>
  /\ Flush

\* the number of pioneer-log events in a sequence of bursts
Delivered(bursts) ==
  IF Len(bursts) = 0 THEN 0 ELSE bursts[Len(bursts)].first + bursts[Len(bursts)].count - 1

\* the pioneer-log listener on one event
logListener(state, buffer, payload) ==
  IF Truthy(state.mode) /\ payload.mode # state.mode
  THEN buffer
  ELSE sliceLast(Append(buffer, payload), maxLogEntries)

RECURSIVE logListenerAll(_, _, _)
\* the listener called on each payload in turn: the buffer left by the first
\* half of the payloads is computed, then the rest is handled
logListenerAll(state, buffer, payloads) ==
  IF Len(payloads) = 0 THEN buffer
  ELSE IF Len(payloads) = 1 THEN logListener(state, buffer, payloads[1])
  ELSE LET half == Len(payloads) \div 2
           first == logListenerAll(state, buffer, SubSeq(payloads, 1, half))
       IN  IF Len(first) >= 0
           THEN logListenerAll(state, first, SubSeq(payloads, half + 1, Len(payloads)))
           ELSE first

\* the pioneer-log listener on a burst of events of one mode
pioneerLog ==
  /\ WorkspaceShown
  /\ Delivery
  /\ \E mode \in modes, count \in LogBursts :
       LET first == Delivered(arrivals) + 1
           payloads == [j \in 1..count |-> LogPayload(mode, first + j - 1)]
       IN  /\ logBuffer' = logListenerAll(progressState, logBuffer, payloads)
           /\ arrivals' = Append(arrivals, [mode |-> mode, first |-> first, count |-> count,
                                            during |-> progressState.mode])
           /\ last' = [op |-> "pioneer-log", mode |-> Str(<<mode>>), count |-> count]
  /\ UNCHANGED <<call, configStates, activeTab, loading, loadError, configSource,
                 binaryError, runError, loadTask, saveTask, editFold, terminalWarning,
                 progressState, runTask>>
  /\ Flush

\* the pioneer-terminal-warning listener
pioneerTerminalWarning ==
  /\ WorkspaceShown
  /\ Delivery
  /\ terminalWarning' = WarningText
  /\ progressState' = updateProgress(progressState, [terminalWarning |-> WarningText])
  /\ last' = [op |-> "pioneer-terminal-warning"]
  /\ UNCHANGED <<call, configStates, activeTab, loading, loadError, configSource,
                 binaryError, runError, loadTask, saveTask, editFold, logBuffer, runTask,
                 arrivals>>
  /\ Flush

\* the pioneer-run-complete listener
pioneerRunComplete ==
  /\ WorkspaceShown
  /\ Delivery
  /\ \E payload \in RunCompletePayloads :
       /\ IF Truthy(progressState.mode) /\ payload.mode # progressState.mode
          THEN UNCHANGED <<progressState, runError>>
          ELSE /\ progressState' = updateProgress(progressState,
                     [running |-> FALSE,
                      stage |-> IF payload.success THEN StageCompleted ELSE StageFailed,
                      progress |-> IF payload.success THEN 100 ELSE progressState.progress,
                      message |-> Coalesce(payload.message,
                                           IF payload.success THEN MessageCompleted
                                           ELSE MessageError)])
               /\ runError' = IF payload.success THEN Null
                              ELSE Coalesce(payload.message, MessageRunFailed)
       /\ last' = [op |-> "pioneer-run-complete", payload |-> payload]
  /\ UNCHANGED <<call, configStates, activeTab, loading, loadError, configSource,
                 binaryError, loadTask, saveTask, editFold, terminalWarning, logBuffer,
                 runTask, arrivals>>
  /\ Flush

Init == call = NoCall /\ HostInit

Next ==
  \/ MountLoaded
  \/ MountFailed
  \/ SelectTab
  \/ handleUpdate
  \/ loadConfigFromFile
  \/ loadDialogClosed
  \/ loadRead
  \/ loadReadFailed
  \/ resetToDefaults
  \/ saveConfigToFile
  \/ saveDialogClosed
  \/ saveInvoked
  \/ saveFailed
  \/ runMode
  \/ runStarted
  \/ runRejected

Spec == Init /\ [][Next]_vars

\* the run of the mode shown at start-up: its launch and the events of the backend
RunNext ==
  \/ MountLoaded
  \/ runMode
  \/ runStarted
  \/ runRejected
  \/ pioneerProgress
  \/ pioneerLog
  \/ pioneerTerminalWarning
  \/ pioneerRunComplete

SpecRun == Init /\ [][RunNext]_vars

\* ------------------------------------------------------------------------
\* One configStates entry on the heap: defaults and current as the objects
\* the handlers build, with the value each handler computes alongside
\* ------------------------------------------------------------------------
\* initialiseState: defaults and current are separate clones
initialiseStateH ==
  /\ call = NoCall
  /\ \E set \in BuildSets :
       LET d == Store(<<>>, clone(set.default_config))
           c == Store(d.heap, clone(Coalesce(set.persisted_config, set.default_config)))
       IN  call' = [fn |-> "entry", heap |-> c.heap, defaults |-> d.ref, current |-> c.ref,
                    important |-> computeImportant(set.simplified_config),
                    set |-> set, value |-> initialiseState(
                       [build |-> set, search |-> set, source |-> "binary"]).buildSpecLib.current,
                    ops |-> <<>>]
  /\ UNCHANGED hostVars

\* loadConfigFromFile once read_config has resolved with a parsed file
loadReadH ==
  /\ call.fn = "entry"
  /\ Len(call.ops) < MaxOps
  /\ \E loaded \in FileValues :
       LET l == Store(call.heap, loaded)
           merged == deepMergeH(l.heap, call.defaults, l.ref)
       IN  call' = [call EXCEPT !.heap = merged.heap, !.current = merged.ref,
                                !.value = deepMerge(Fetch(call.heap, call.defaults), loaded),
                                !.ops = Append(@, "load")]
  /\ UNCHANGED hostVars

\* handleUpdate with an event of the editor rendered for current
handleUpdateH ==
  /\ call.fn = "entry"
  /\ Len(call.ops) < MaxOps
  /\ \E event \in JsonEditor(Fetch(call.heap, call.current), <<>>) :
       LET x == Store(call.heap, event.value)
           done == setValueH(x.heap, call.current, event.path, x.ref)
       IN  call' = [call EXCEPT !.heap = done.heap, !.current = done.ref,
                                !.value = setValue(@, event.path, event.value),
                                !.ops = Append(@, "edit")]
  /\ UNCHANGED hostVars

resetToDefaultsH ==
  /\ call.fn = "entry"
  /\ Len(call.ops) < MaxOps
  /\ LET c == Store(call.heap, clone(Fetch(call.heap, call.defaults)))
     IN  call' = [call EXCEPT !.heap = c.heap, !.current = c.ref,
                              !.value = clone(Fetch(call.heap, call.defaults)),
                              !.ops = Append(@, "reset")]
  /\ UNCHANGED hostVars

HeapNext ==
  \/ initialiseStateH
  \/ loadReadH
  \/ handleUpdateH
  \/ resetToDefaultsH

SpecHeap == AlgInit /\ [][HeapNext]_vars

\* ------------------------------------------------------------------------
\* Properties
\* ------------------------------------------------------------------------
\* the paths to the scalar leaves of v
LeafPathsOf(v) == {p \in Paths : HasPath(v, p) /\ IsPrimitive(NodeAt(v, p))}

\* path p is present in merged with the value it has in base
KeptFrom(base, merged, p) == HasPath(merged, p) /\ NodeAt(merged, p) = NodeAt(base, p)

\* base and override both hold a mapping wherever a proper prefix of p occurs
\* in override
MappingsAlong(base, override, p) ==
  \A q \in ProperPrefixes(p) :
    HasPath(override, q) => IsObject(NodeAt(override, q)) /\ IsObject(NodeAt(base, q))

\* C1 as stated: every leaf path of the defaults d that does not occur in the
\* loaded value f is present with d's value in deepMerge(d, f), whatever f
\* holds along the path.
C1_NoDefaultLeafDropped ==
  call.fn = "deepMerge" =>
    \A p \in LeafPathsOf(call.base) :
      ~HasPath(call.override, p) => KeptFrom(call.base, call.result, p)

\* C1 amended: a leaf path of d that does not occur in f is present with d's
\* value in deepMerge(d, f) when d and f both hold a mapping at every proper
\* prefix of the path that occurs in f.
C1_DefaultLeafKeptUnderMappings ==
  call.fn = "deepMerge" =>
    \A p \in LeafPathsOf(call.base) :
      ~HasPath(call.override, p) /\ MappingsAlong(call.base, call.override, p)
        => KeptFrom(call.base, call.result, p)

\* a nested default leaf survives a merge with a file that holds its parent
C1_Witness ==
  /\ call.fn = "deepMerge"
  /\ \E p \in LeafPathsOf(call.base) :
       /\ Len(p) = 2
       /\ ~HasPath(call.override, p)
       /\ HasPath(call.override, SubSeq(p, 1, 1))
       /\ MappingsAlong(call.base, call.override, p)
       /\ call.result # call.base
       /\ KeptFrom(call.base, call.result, p)

\* C2: after initialiseState, current = deepMerge(defaultConfig, persistedConfig)
\* when a persisted config is supplied, else current = defaultConfig.
C2_InitialCurrentMerged ==
  last.op = "initialiseState" =>
    \A mode \in modes :
      LET set == IF mode = "buildSpecLib" THEN last.response.build ELSE last.response.search
      IN  configStates[mode].current =
            IF set.persisted_config # Undef /\ set.persisted_config # Null
            THEN deepMerge(set.default_config, set.persisted_config)
            ELSE set.default_config

\* C3: a successful loadConfigFromFile leaves current = deepMerge(defaults, f)
\* and lastLoadedPath = the chosen file; a cancelled dialog or a failed read
\* leaves current as it was.
C3_LoadMergesOntoDefaults ==
  last.op = "loadConfigFromFile" =>
    LET state == configStates[last.mode] IN
    /\ last.outcome = "loaded" =>
         /\ state.current = deepMerge(state.defaults, last.loaded)
         /\ state.lastLoadedPath = last.selected
    /\ last.outcome \in {"cancelled", "failed"} => state.current = last.before

\* a file lacking default keys was loaded over an edited configuration
C3_Witness ==
  /\ last.op = "loadConfigFromFile"
  /\ last.outcome = "loaded"
  /\ configStates[last.mode].current # last.loaded
  /\ configStates[last.mode].current # configStates[last.mode].defaults
  /\ configStates[last.mode].lastLoadedPath \in FilePaths

RECURSIVE SameShape(_, _)
\* every mapping-key path of d exists in c with a value of the same JSON kind
SameShape(d, c) ==
  /\ d.k = c.k
  /\ IsObject(d) =>
       \A name \in KeySet(d.m) :
         HasKey(c.m, name) /\ SameShape(ObjGet(d.m, name), ObjGet(c.m, name))

\* C4: current and defaults of a workflow always have the same schema shape.
C4_CurrentHasDefaultsShape ==
  \A mode \in modes :
    configStates[mode] # Null =>
      SameShape(configStates[mode].defaults, configStates[mode].current)

\* every proper prefix of path resolves in v to a container of the kind the
\* next segment addresses
WritablePath(v, path) ==
  \A n \in 0..(Len(path) - 1) :
    LET q == SubSeq(path, 1, n) IN
    /\ HasPath(v, q)
    /\ IF IsNumberSeg(path[n + 1]) THEN IsArray(NodeAt(v, q)) ELSE IsObject(NodeAt(v, q))

C6_WriteBackIsNoOp ==
  call.fn = "setOfGet" => DeepEqual(call.result, call.root)

\* C7: getValue returns undefined whenever a segment of the path cannot be
\* resolved.
C7_UnresolvedIsUndefined ==
  call.fn = "getValue" /\ ~HasPath(call.root, call.path) => call.result = Undef

\* C8: setValue synthesizes an empty mapping for an absent intermediate key
\* and creates an absent final key.
C8_SynthesizesMissingMapping ==
  call.fn = "setValue" /\ IsObject(call.root) /\ Len(call.path) > 0
    /\ IsStringSeg(call.path[1]) /\ ~HasKey(call.root.m, call.path[1].key) =>
    /\ Len(call.path) = 1 =>
         call.result = Obj(Append(call.root.m, Entry(call.path[1].key, call.value)))
    /\ Len(call.path) = 2 /\ IsStringSeg(call.path[2]) =>
         call.result = Obj(Append(call.root.m,
                             Entry(call.path[1].key,
                                   Obj(<<Entry(call.path[2].key, call.value)>>))))

\* two containers of the same kind with the same keys in the same order, or
\* the same length
SameContainer(x, y) ==
  /\ x.k = y.k
  /\ IsArray(x) => Len(x.a) = Len(y.a)
  /\ IsObject(x) => [j \in 1..Len(x.m) |-> x.m[j].key] = [j \in 1..Len(y.m) |-> y.m[j].key]

\* C9: for a path that resolves in v, setValue(v, p, x) differs from v only at
\* p: reads at paths unrelated to p are unchanged, the containers above p keep
\* their key set or length, and the empty path yields x.
C9_SetValueFrame ==
  call.fn = "setValue" /\ HasPath(call.root, call.path) =>
    /\ \A q \in Paths :
         ~IsPrefix(q, call.path) /\ ~IsPrefix(call.path, q)
           => getValue(call.result, q) = getValue(call.root, q)
    /\ \A q \in ProperPrefixes(call.path) :
         HasPath(call.result, q) /\ SameContainer(NodeAt(call.root, q), NodeAt(call.result, q))
    /\ Len(call.path) = 0 => call.result = call.value
    /\ getValue(call.result, call.path) = call.value

\* a nested write next to a sibling subtree
C9_Witness ==
  /\ call.fn = "setValue"
  /\ Len(call.path) = 2
  /\ HasPath(call.root, call.path)
  /\ call.result # call.root
  /\ \E q \in Paths :
       /\ Len(q) = 2 /\ q[1] = call.path[1] /\ q[2] # call.path[2]
       /\ HasPath(call.root, q)
       /\ getValue(call.result, q) = getValue(call.root, q)

\* the child reference of a container node under a segment of its kind
ChildRef(heap, r, seg) ==
  IF IsArrayRef(heap, r) /\ IsNumberSeg(seg) THEN ArrAt(heap[r.ref].a, seg.idx)
  ELSE IF IsObjectRef(heap, r) /\ IsStringSeg(seg) THEN ObjGet(heap[r.ref].m, seg.key)
  ELSE Undef

RECURSIVE RefAt(_, _, _)
RefAt(heap, r, path) ==
  IF Len(path) = 0 THEN r
  ELSE RefAt(heap, ChildRef(heap, r, Head(path)), Tail(path))

\* C10: setValue(v, p, x) with non-empty p leaves every node of v as it was,
\* allocates only the containers on the way from the root to the target, and
\* keeps every sibling subtree off p as the identical node; the result denotes
\* the value setValue computes.
C10_StructuralSharing ==
  call.fn = "setValueH" /\ Len(call.path) > 0 =>
    LET old == 1..Len(call.before)
        onPath == {RefAt(call.after, call.result, q) : q \in ProperPrefixes(call.path)}
    IN  /\ Len(call.after) >= Len(call.before)
        /\ \A id \in old : call.after[id] = call.before[id]
        /\ \A id \in (1..Len(call.after)) \ old : Ptr(id) \in onPath
        /\ \A n \in 0..(Len(call.path) - 1) :
             LET q == SubSeq(call.path, 1, n)
                 was == RefAt(call.before, call.root, q)
                 now == RefAt(call.after, call.result, q)
             IN  IsPtr(was) =>
                   /\ IsPtr(now)
                   /\ \A seg \in Segments \ {call.path[n + 1]} :
                        ChildRef(call.after, now, seg) = ChildRef(call.before, was, seg)
        /\ Fetch(call.after, call.result)
             = setValue(Fetch(call.before, call.root), call.path, Fetch(call.before, call.value))

\* a nested write that copied two containers and shared a sibling container
C10_Witness ==
  /\ call.fn = "setValueH"
  /\ Len(call.path) = 2
  /\ Len(call.after) = Len(call.before) + 2
  /\ \E seg \in Segments \ {call.path[1]} :
       /\ IsPtr(ChildRef(call.before, call.root, seg))
       /\ ChildRef(call.after, call.result, seg) = ChildRef(call.before, call.root, seg)

\* C11: for mappings v1 and v2, deepMerge(v1, v2) holds every key of v1 that
\* v2 lacks with v1's value, and its key set is the union of the two key sets.
C11_BaseOnlyKeysKept ==
  call.fn = "deepMerge" /\ IsObject(call.base) /\ IsObject(call.override) =>
    /\ IsObject(call.result)
    /\ KeySet(call.result.m) = KeySet(call.base.m) \cup KeySet(call.override.m)
    /\ DistinctKeys(call.result.m)
    /\ \A name \in KeySet(call.base.m) \ KeySet(call.override.m) :
         ObjGet(call.result.m, name) = ObjGet(call.base.m, name)

\* two mappings with different keys were merged
C11_Witness ==
  /\ call.fn = "deepMerge" /\ IsObject(call.base) /\ IsObject(call.override)
  /\ KeySet(call.base.m) \ KeySet(call.override.m) # {}
  /\ KeySet(call.override.m) \ KeySet(call.base.m) # {}
  /\ \A name \in KeySet(call.base.m) \ KeySet(call.override.m) :
       ObjGet(call.result.m, name) = ObjGet(call.base.m, name)

\* a mapping all of whose values are scalars
IsFlatObject(v) == IsObject(v) /\ \A j \in 1..Len(v.m) : IsPrimitive(v.m[j].val)

\* C12: for mappings v1 and v2 and a key k of both, deepMerge(v1, v2)[k] is
\* deepMerge(v1[k], v2[k]): v2[k] itself when v2[k] is a scalar, null or an
\* array, or when v2[k] is a mapping and v1[k] is not (also when v1 lacks k);
\* the key-wise right-biased union when both are mappings.
C12_RecursiveRightBiased ==
  call.fn = "deepMerge" /\ IsObject(call.base) /\ IsObject(call.override) =>
    \A name \in KeySet(call.override.m) :
      LET b == ObjGet(call.base.m, name)
          o == ObjGet(call.override.m, name)
          r == ObjGet(call.result.m, name)
      IN  /\ HasKey(call.base.m, name) => r = deepMerge(b, o)
          /\ ~IsObject(o) => r = o
          /\ IsObject(o) /\ ~IsObject(b) => r = o
          /\ IsFlatObject(o) /\ IsFlatObject(b) =>
               /\ KeySet(r.m) = KeySet(b.m) \cup KeySet(o.m)
               /\ \A inner \in KeySet(r.m) :
                    ObjGet(r.m, inner) = IF HasKey(o.m, inner) THEN ObjGet(o.m, inner)
                                         ELSE ObjGet(b.m, inner)

\* nested mappings were merged under a shared key, base keeping a key of its own
C12_Witness ==
  /\ call.fn = "deepMerge" /\ IsObject(call.base) /\ IsObject(call.override)
  /\ \E name \in KeySet(call.override.m) \cap KeySet(call.base.m) :
       LET b == ObjGet(call.base.m, name)
           o == ObjGet(call.override.m, name)
           r == ObjGet(call.result.m, name)
       IN  /\ IsFlatObject(b) /\ IsFlatObject(o)
           /\ KeySet(b.m) \ KeySet(o.m) # {}
           /\ r # o /\ r = deepMerge(b, o)
  /\ \E name \in KeySet(call.override.m) \cap KeySet(call.base.m) :
       IsArray(ObjGet(call.override.m, name)) /\ IsObject(ObjGet(call.base.m, name))

\* C13: deepMerge(v, v) is deep-equal to v, and merging the same overlay a
\* second time changes nothing.
C13_MergeIdempotent ==
  call.fn = "deepMerge" =>
    /\ call.base = call.override => DeepEqual(call.result, call.base)
    /\ DeepEqual(call.again, call.result)

\* a nested mapping merged onto itself; an overlay that changed the base
C13_Witness ==
  /\ call.fn = "deepMerge"
  /\ \/ /\ call.base = call.override
        /\ IsObject(call.base)
        /\ \E j \in 1..Len(call.base.m) : ~IsPrimitive(call.base.m[j].val)
        /\ DeepEqual(call.result, call.base)
     \/ /\ IsObject(call.base) /\ IsObject(call.override)
        /\ call.result # call.base /\ call.result # call.override
        /\ DeepEqual(call.again, call.result)

\* the path without its last segment
ParentPath(path) == SubSeq(path, 1, Len(path) - 1)

\* C14: deleteKey(v, p) for a path that names an element removes exactly that
\* element: a mapping parent loses the key and keeps its other keys' values, an
\* array parent loses the element and its later elements move down by one,
\* everything outside the parent is unchanged; the empty path returns the root
\* itself; and no object of the input is modified.
C14_DeleteRemovesAddressed ==
  call.fn = "deleteKeyH" =>
    LET v == Fetch(call.before, call.root)
        r == Fetch(call.after, call.result)
        up == ParentPath(call.path)
        seg == call.path[Len(call.path)]
    IN  /\ \A id \in 1..Len(call.before) : call.after[id] = call.before[id]
        /\ Len(call.path) = 0 => call.result = call.root
        /\ Len(call.path) > 0 /\ HasPath(v, call.path) =>
             /\ HasPath(r, up)
             /\ IsObject(NodeAt(v, up)) =>
                  /\ IsObject(NodeAt(r, up))
                  /\ KeySet(NodeAt(r, up).m) = KeySet(NodeAt(v, up).m) \ {seg.key}
                  /\ \A name \in KeySet(NodeAt(r, up).m) :
                       ObjGet(NodeAt(r, up).m, name) = ObjGet(NodeAt(v, up).m, name)
             /\ IsArray(NodeAt(v, up)) =>
                  /\ IsArray(NodeAt(r, up))
                  /\ Len(NodeAt(r, up).a) = Len(NodeAt(v, up).a) - 1
                  /\ \A j \in 1..Len(NodeAt(r, up).a) :
                       NodeAt(r, up).a[j] = IF j <= seg.idx THEN NodeAt(v, up).a[j]
                                            ELSE NodeAt(v, up).a[j + 1]
             /\ \A q \in Paths :
                  ~IsPrefix(up, q) /\ ~IsPrefix(q, up) => getValue(r, q) = getValue(v, q)
             /\ \A q \in ProperPrefixes(up) :
                  SameContainer(NodeAt(v, q), NodeAt(r, q))

\* an element of a nested array was removed and a later element moved down
C14_Witness ==
  /\ call.fn = "deleteKeyH"
  /\ Len(call.path) = 2
  /\ LET v == Fetch(call.before, call.root)
         r == Fetch(call.after, call.result)
         up == ParentPath(call.path)
     IN  /\ HasPath(v, call.path)
         /\ IsArray(NodeAt(v, up))
         /\ call.path[2].idx = 0
         /\ Len(NodeAt(v, up).a) = 2
         /\ NodeAt(r, up) = Arr(<<NodeAt(v, up).a[2]>>)
         /\ Fetch(call.after, call.root) = v

RECURSIVE ValidJson(_)
\* a JSON value: no absent marker stored in a mapping, no hole in an array
ValidJson(x) ==
  /\ x # Undef
  /\ IsArray(x) => \A j \in 1..Len(x.a) : ValidJson(x.a[j])
  /\ IsObject(x) => \A j \in 1..Len(x.m) : ValidJson(x.m[j].val)

\* r is v with nothing but mappings added along path
SynthesizedAlong(v, r, path) ==
  /\ \A q \in ProperPrefixes(path) :
       HasPath(r, q) /\ ~HasPath(v, q) => IsObject(NodeAt(r, q))
  /\ \A q \in Paths :
       ~IsPrefix(q, path) /\ ~IsPrefix(path, q) /\ HasPath(v, q)
         => HasPath(r, q) /\ NodeAt(r, q) = NodeAt(v, q)

\* C15: for a path that does not resolve in v, setValue and deleteKey return
\* either a value deep-equal to v or v with mappings synthesized along the path,
\* and always a valid JSON value (no absent marker stored, no array hole).
C15_MalformedPathDegradesGracefully ==
  call.fn \in {"setValue", "deleteKey"} /\ ~HasPath(call.root, call.path) =>
    /\ ValidJson(call.result)
    /\ DeepEqual(call.result, call.root) \/ SynthesizedAlong(call.root, call.result, call.path)

RECURSIVE LeafPaths(_)
\* the typed paths of the scalar leaves of a value, at any depth
LeafPaths(v) ==
  IF IsPrimitive(v) THEN {<<>>}
  ELSE IF IsArray(v)
       THEN UNION {{<<I(j - 1)>> \o p : p \in LeafPaths(v.a[j])} : j \in 1..Len(v.a)}
  ELSE UNION {{<<K(v.m[j].key)>> \o p : p \in LeafPaths(v.m[j].val)} : j \in 1..Len(v.m)}

\* the string the editor compares with the important set: path.map(String).join('.')
\* C16: collectPaths is sound and complete: every returned path is the path
\* of a scalar leaf that getValue resolves, every scalar leaf is returned
\* exactly once, an empty array or mapping contributes nothing, and a scalar
\* root contributes the empty path.
C16_CollectPathsSoundComplete ==
  call.fn = "collectPaths" =>
    /\ \A j \in 1..Len(call.result) :
         \E p \in LeafPaths(call.root) :
           /\ pathKey(p) = call.result[j]
           /\ getValue(call.root, p) # Undef /\ IsPrimitive(getValue(call.root, p))
    /\ \A p \in LeafPaths(call.root) :
         Cardinality({j \in 1..Len(call.result) : call.result[j] = pathKey(p)}) = 1
    /\ call.root \in {Arr(<<>>), Obj(<<>>)} => call.result = <<>>
    /\ IsPrimitive(call.root) => call.result = <<pathKey(<<>>)>>

RECURSIVE Positions(_, _)
\* the child positions a resolving path passes through
Positions(v, path) ==
  IF Len(path) = 0 THEN <<>>
  ELSE IF IsArray(v)
       THEN <<path[1].idx + 1>> \o Positions(v.a[path[1].idx + 1], Tail(path))
  ELSE LET pos == CHOOSE j \in 1..Len(v.m) : v.m[j].key = path[1].key IN
       <<pos>> \o Positions(v.m[pos].val, Tail(path))

RECURSIVE Before(_, _)
\* lexicographic order of position sequences, neither a prefix of the other
Before(s, t) ==
  /\ Len(s) > 0 /\ Len(t) > 0
  /\ \/ s[1] < t[1]
     \/ s[1] = t[1] /\ Before(Tail(s), Tail(t))

\* C17: collectPaths lists the leaf paths in pre-order: the leaves below an
\* earlier key (stored order) or lower array index come first; the value
\* {"p": {"q": 1, "r": [2, 3]}} yields "p.q", "p.r.0", "p.r.1".
C17_CollectPathsPreOrder ==
  call.fn = "collectPaths" =>
    /\ Len(call.result) = Cardinality(LeafPaths(call.root))
    /\ \A p \in LeafPaths(call.root) :
         LET rank == 1 + Cardinality({q \in LeafPaths(call.root) :
                           Before(Positions(call.root, q), Positions(call.root, p))})
         IN  call.result[rank] = pathKey(p)
    /\ call.root = ScenarioTree =>
         call.result = << <<"p", ".", "q">>, <<"p", ".", "r", ".", "0">>,
                          <<"p", ".", "r", ".", "1">> >>

\* the scenario value was traversed
C17_Witness ==
  /\ call.fn = "collectPaths"
  /\ call.root = ScenarioTree
  /\ Len(call.result) = 3
  /\ call.result[1] = <<"p", ".", "q">>
  /\ call.result[3] = <<"p", ".", "r", ".", "1">>

\* the non-empty prefixes of a path, the path included
NonEmptyPrefixes(p) == {SubSeq(p, 1, n) : n \in 1..Len(p)}

\* C18: the important set is exactly the dot-joined strings of the leaf paths
\* of the simplified config and of their non-empty proper prefixes; it is
\* prefix-closed and never holds the root's empty path.
C18_ImportantIsLeafPrefixClosure ==
  call.fn = "computeImportant" =>
    /\ call.result = {pathKey(q) : q \in UNION {NonEmptyPrefixes(p) : p \in LeafPaths(call.root)}}
    /\ pathKey(<<>>) \notin call.result

\* the handler steps that act for one mode
ModeOps == {"handleUpdate", "loadConfigFromFile", "saveConfigToFile", "resetToDefaults",
            "runMode"}

\* C19: a step of an edit, load, save, reset or run for one mode, the
\* completion of its asynchronous part included, leaves the other mode's
\* ConfigState unchanged, and so does switching tabs.
C19_TabsOwnTheirConfig ==
  [][\A mode \in modes :
       \/ last'.op = "selectTab"
       \/ last'.op \in ModeOps /\ last'.mode # mode
       => configStates'[mode] = configStates[mode]]_vars

\* a load for one mode completed while the other tab, holding edits, was active
C19_Witness ==
  /\ last.op = "loadConfigFromFile" /\ last.outcome = "loaded"
  /\ last.mode # activeTab
  /\ configStates[last.mode].lastLoadedPath = last.selected
  /\ configStates[activeTab].current # configStates[activeTab].defaults
  /\ configStates[activeTab].lastLoadedPath = Undef

\* C20: right after an edit for a mode, current is the fold of setValue over
\* the edits emitted since the last load or reset, in order of emission, and
\* reading the edited path gives the emitted value.
C20_EditsAppliedInOrder ==
  last.op = "handleUpdate" =>
    /\ configStates[last.mode].current = editFold[last.mode]
    /\ getValue(configStates[last.mode].current, last.path) = last.value

\* C21: an edit of a numeric field never replaces the number by null or by
\* a value of another kind: when the edited path holds a number, the step emits
\* a parsed number or nothing, so current holds a number there afterwards.
C21_NumberFieldKeepsNumber ==
  [][last'.op = "handleUpdate"
       /\ getValue(configStates[last'.mode].current, last'.path).k = "num"
     => getValue(configStates'[last'.mode].current, last'.path).k = "num"]_vars

NotBlank(line) == line.means # Blank

\* C22: committing a text block emits exactly one (path, array) event; the
\* array holds, in line order, a Boolean for true/false, a Number for a number,
\* the parsed value for another structured literal, else the string; blank
\* lines are dropped ("1\n2\n3" gives [1,2,3], "1\n\n2" gives [1,2]).
C22_CommitParsesLineByLine ==
  call.fn = "commitArrayChanges" =>
    LET kept == SelectSeq(call.typed, NotBlank) IN
    call.events = {[path |-> call.path,
                    value |-> Arr([j \in 1..Len(kept) |-> kept[j].means])]}

\* the text "1\n\n2" was committed and gave [1, 2]
C22_Witness ==
  /\ call.fn = "commitArrayChanges"
  /\ call.text = <<"1", NL, NL, "2">>
  /\ call.events = {[path |-> call.path, value |-> Arr(<<Num(1), Num(2)>>)]}

LeafControls == {"readonly", "checkbox", "number", "text"}

\* C23: the control follows the kind of the value: a scalar gets one leaf
\* control; a non-empty array of scalars gets the text block; an array that is
\* empty or holds a non-scalar is rendered element by element at path+[index];
\* a mapping entry by entry at path+[key]; an empty array never gets the text
\* block.
C23_ControlByKind ==
  call.fn = "JsonEditor" =>
    \A node \in call.nodes :
      LET value == NodeAt(call.root, node.path)
          children == {n \in call.nodes : Len(n.path) = Len(node.path) + 1
                                          /\ IsPrefix(node.path, n.path)}
      IN  /\ IsPrimitive(value) => node.control \in LeafControls /\ children = {}
          /\ IsArray(value) /\ Len(value.a) > 0 /\ arrayHasOnlyPrimitives(value)
               => node.control = "textBlock" /\ children = {}
          /\ IsArray(value) /\ (Len(value.a) = 0 \/ ~arrayHasOnlyPrimitives(value))
               => /\ node.control = "elements"
                  /\ {n.path : n \in children}
                       = {Append(node.path, I(j - 1)) : j \in 1..Len(value.a)}
          /\ IsObject(value)
               => /\ node.control = "entries"
                  /\ {n.path : n \in children}
                       = {Append(node.path, K(value.m[j].key)) : j \in 1..Len(value.m)}

\* C24: at every render, each mounted editor node is flagged important
\* exactly when the pathKey of the path it currently edits is in the
\* important set of the tab, also when child components are reused.
C24_FlagFollowsPath ==
  \A inst \in Instances(editor) :
    inst.isImportant <=> pathKey(inst.path) \in configStates[activeTab].important

\* C25: a step of saveConfigToFile changes nothing of the configuration
\* states but lastLoadedPath of the saved mode: whatever edits, loads or
\* resets were handled while the save was pending stay in place.
C25_SaveTouchesOnlyLastLoadedPath ==
  [][last'.op = "saveConfigToFile"
     => \A mode \in modes :
          /\ mode # last'.mode => configStates'[mode] = configStates[mode]
          /\ mode = last'.mode =>
               configStates'[mode] =
                 [configStates[mode] EXCEPT !.lastLoadedPath = configStates'[mode].lastLoadedPath]]_vars

C27_ResetRestoresDefaults ==
  [][last'.op = "resetToDefaults"
     => LET was == configStates[last'.mode]
            now == configStates'[last'.mode]
        IN  /\ DeepEqual(now.current, now.defaults)
            /\ now.lastLoadedPath = Undef
            /\ now.persistedPath = was.persistedPath
            /\ now.defaults = was.defaults
            /\ runError' = Null]_vars

\* a reset as the first gesture on a tab that started from a stored configuration
C27_Witness ==
  /\ last.op = "resetToDefaults"
  /\ gestures = 1
  /\ last.mode = "buildSpecLib"
  /\ configStates.buildSpecLib.persistedPath = StoredPath
  /\ configStates.buildSpecLib.lastLoadedPath = Undef
  /\ configStates.buildSpecLib.current = DefaultA

\* C28: once a run has completed or its launch has failed, running is false
\* and stays false in every step that is not a new runMode call, whatever
\* events are delivered.
C28_StaysStoppedUntilRun ==
  [][~progressState.running /\ progressState.stage \in {StageCompleted, StageFailed}
       /\ ~(last'.op = "runMode" /\ last'.outcome = "invoked")
     => ~progressState'.running]_vars

RECURSIVE AcceptedLogs(_)
\* the delivered pioneer-log payloads, in arrival order, but those whose mode
\* differed from the mode of the run in progress on delivery
AcceptedLogs(bursts) ==
  IF Len(bursts) = 0 THEN <<>>
  ELSE LET b == bursts[Len(bursts)]
           earlier == AcceptedLogs(SubSeq(bursts, 1, Len(bursts) - 1))
       IN  IF b.during \notin {Null, Str(<<b.mode>>)} THEN earlier
           ELSE earlier \o [j \in 1..b.count |-> LogPayload(b.mode, b.first + j - 1)]

MostRecent(items, n) ==
  LET kept == IF Len(items) < n THEN Len(items) ELSE n IN
  [j \in 1..kept |-> items[Len(items) - kept + j]]

\* C30: logBuffer holds at most 120 entries, the most recently accepted
\* pioneer-log events in arrival order; a log event whose mode differs from
\* the run in progress is not among them; runMode leaves the buffer empty.
C30_LogBufferKeepsLatest ==
  /\ Len(logBuffer) <= 120
  /\ logBuffer = MostRecent(AcceptedLogs(arrivals), 120)
  /\ last.op = "runMode" /\ last.outcome = "invoked" => logBuffer = <<>>

\* a full buffer that has dropped its oldest entry and skipped a log event of
\* the other mode
C30_Witness ==
  /\ Len(logBuffer) = 120
  /\ Delivered(arrivals) = 122
  /\ logBuffer[1].line = 2
  /\ logBuffer[119].line = 120
  /\ logBuffer[120].line = 122
  /\ progressState.running

\* C29 as stated: for every array of scalars, committing the text block
\* generated from it yields an array deep-equal to it.
C29_RoundTripAnyScalarArray ==
  call.fn = "arrayRoundTrip" => DeepEqual(call.parsed, call.array)

\* a string that a line of the block stands for as it is
PlainText(str) ==
  /\ Len(str) > 0
  /\ trim(str) = str
  /\ \A j \in 1..Len(str) : str[j] # NL
  /\ str \notin {TextTrue, TextFalse}
  /\ Number(str) = NaN
  /\ JSONparse(str) = SyntaxError

\* C29: for every array of nulls, Booleans, numbers and plain strings
\* (non-empty, without line feed or surrounding white space, and read neither
\* as true or false, nor as a number, nor as a JSON literal), committing the
\* text block generated from it yields an array deep-equal to it.
C29_RoundTripPlainArray ==
  call.fn = "arrayRoundTrip"
    /\ (\A j \in 1..Len(call.array.a) :
          call.array.a[j].k = "str" => PlainText(call.array.a[j].s))
  => DeepEqual(call.parsed, call.array)

C29_Witness ==
  /\ call.fn = "arrayRoundTrip"
  /\ call.array = Arr(<<Str(<<"x">>), Null>>)
  /\ call.text = <<"x", NL>> \o TextNull
  /\ call.parsed = call.array

====
